---- MODULE Spec2Model ----
(***************************************************************************)
(* A model of bropt, an optimizing Brainfuck compiler and interpreter      *)
(* (src/src/brainfuck.rs, src/src/lib.rs, src/src/main.rs).                *)
(*                                                                         *)
(* The tree IR (BaseInst), the passes of compile, the flattener and the    *)
(* dispatch loop of run_with_state are translated operator by operator.    *)
(* u8 arithmetic is wrapping (mod 256), as in a release build.             *)
(***************************************************************************)
EXTENDS Integers, Sequences, FiniteSets, TLC

VARIABLES
    code,     \* the source text given to compile, a sequence of characters
    input,    \* the input buffer given to run_with_state
    tree,     \* the tree IR held by compile's `prog` between passes
    aux,      \* the value kept for comparison (a previous tree or final state)
    stage,    \* position in the flow of the specification
    err,      \* "" or the panic message of the failed call
    prog,     \* the flat program (Vec<Inst>)
    data,     \* the tape
    dp,       \* data pointer
    ip,       \* instruction pointer (0-based, as in the source)
    output,   \* bytes pushed to output
    in_idx,   \* next unread index of input (0-based)
    steps,    \* history: passes through the dispatch loop since it started
    pass,     \* number of steps of compile's sequence already done
    length,   \* the tape length given by the caller
    offset,   \* unsafe_run's bias of the tape pointer
    ref       \* state of the reference interpreter

vars == <<code, input, tree, aux, stage, err, prog, data, dp, ip, output, in_idx,
          steps, pass, length, offset, ref>>

(***************************************************************************)
(* Program constants                                                       *)
(***************************************************************************)
U8 == 256
U8_MAX == 255
I16_MIN == -32768
I16_MAX == 32767

\* `n as i16` on an i32: the low 16 bits, read as a signed value.
AsI16(n) == ((n - I16_MIN) % (2 * (I16_MAX + 1))) + I16_MIN

(***************************************************************************)
(* Tree IR: enum BaseInst.  Every node is a record of one shape; the       *)
(* fields a variant does not have are 0 / <<>> / FALSE.                    *)
(***************************************************************************)
Node(k, a, b, c, body, st) == [k |-> k, a |-> a, b |-> b, c |-> c, body |-> body, st |-> st]
Inc(v) == Node("Inc", v, 0, 0, <<>>, FALSE)
Shift(n) == Node("Shift", n, 0, 0, <<>>, FALSE)
Output == Node("Output", 0, 0, 0, <<>>, FALSE)
Input == Node("Input", 0, 0, 0, <<>>, FALSE)
Reset == Node("Reset", 0, 0, 0, <<>>, FALSE)
Mul(off, w) == Node("Mul", off, w, 0, <<>>, FALSE)
Seek(n) == Node("Seek", n, 0, 0, <<>>, FALSE)
Skip(p, v, d) == Node("Skip", p, v, d, <<>>, FALSE)
Block(body, stable) == Node("Block", 0, 0, 0, body, stable)

\* Flat IR: struct Inst { cmd, inc, delta, arg }
Inst(cmd, arg, inc, delta) == [cmd |-> cmd, arg |-> arg, inc |-> inc, delta |-> delta]

(***************************************************************************)
(* parse                                                                   *)
(***************************************************************************)
ParseOk(p, stability, pos) == [prog |-> p, stab |-> stability, pos |-> pos, err |-> ""]
ParseErr(msg) == [prog |-> <<>>, stab |-> FALSE, pos |-> 0, err |-> msg]

\* A variant that drops the test of delta: only the nested flags count.
StabilityOfChildren(stability, delta) == stability

\* The result a block returns when it ends: Ok((prog, stability && delta == 0)).
BlockStability(stability, delta) == stability /\ delta = 0

\* A variant whose top level takes ']' as the end of the source.
CloseBracketLenient(in_block, p, stability, delta, i) ==
    ParseOk(p, BlockStability(stability, delta), i + 1)

\* The arm for ']': the block returns, or the top level fails.
CloseBracket(in_block, p, stability, delta, i) ==
    IF in_block THEN ParseOk(p, BlockStability(stability, delta), i + 1)
    ELSE ParseErr("Unmatched ]")

\* After the while loop: the iterator is exhausted.
EndOfSource(in_block, p, stability, delta, i) ==
    IF in_block THEN ParseErr("Unmatched [")
    ELSE ParseOk(p, BlockStability(stability, delta), i)

\* parse_block: `i` is the position of the iterator in `s`; p, delta and
\* stability are the locals of the loop.
RECURSIVE parse_block(_, _, _, _, _, _)
parse_block(s, i, in_block, p, delta, stability) ==
    IF i > Len(s) THEN EndOfSource(in_block, p, stability, delta, i)
    ELSE CASE s[i] = "+" -> parse_block(s, i + 1, in_block, Append(p, Inc(1)), delta, stability)
           [] s[i] = "-" -> parse_block(s, i + 1, in_block, Append(p, Inc(U8_MAX)), delta, stability)
           [] s[i] = ">" -> parse_block(s, i + 1, in_block, Append(p, Shift(1)), delta + 1, stability)
           [] s[i] = "<" -> parse_block(s, i + 1, in_block, Append(p, Shift(-1)), delta - 1, stability)
           [] s[i] = "." -> parse_block(s, i + 1, in_block, Append(p, Output), delta, stability)
           [] s[i] = "," -> parse_block(s, i + 1, in_block, Append(p, Input), delta, stability)
           [] s[i] = "[" ->
                LET r == parse_block(s, i + 1, TRUE, <<>>, 0, TRUE)
                IN  IF r.err # "" THEN r
                    ELSE parse_block(s, r.pos, in_block,
                                     Append(p, Block(r.prog, r.stab)),
                                     delta, stability /\ r.stab)
           [] s[i] = "]" -> CloseBracket(in_block, p, stability, delta, i)
           [] OTHER -> parse_block(s, i + 1, in_block, p, delta, stability)

\* parse: the top-level call; an Err is unwrapped into a panic carrying the message.
parse(s) == parse_block(s, 1, FALSE, <<>>, 0, TRUE)

(***************************************************************************)
(* compress                                                                *)
(***************************************************************************)
\* The first index at or after i whose node is not of kind k: the end of the
\* run that `while let Some(..) = iter.peek()` consumes.
RECURSIVE RunEnd(_, _, _)
RunEnd(block, i, k) ==
    IF i <= Len(block) /\ block[i].k = k THEN RunEnd(block, i + 1, k) ELSE i

\* The sum of the first fields of block[i..j-1] (val += *next / off += *next).
RECURSIVE RunSum(_, _, _)
RunSum(block, i, j) == IF i >= j THEN 0 ELSE block[i].a + RunSum(block, i + 1, j)

\* What compress_block pushes for a fused run of Inc / of Shift.
FusedInc(val) == IF val # 0 THEN <<Inc(val)>> ELSE <<>>
FusedShift(off) == IF off # 0 THEN <<Shift(off)>> ELSE <<>>

RECURSIVE compress_block(_)
RECURSIVE compress_from(_, _, _)
compress_from(block, i, compressed) ==
    IF i > Len(block) THEN compressed
    ELSE LET inst == block[i] IN
         CASE inst.k = "Inc" ->
                LET j == RunEnd(block, i + 1, "Inc")
                    val == RunSum(block, i, j) % U8
                IN  compress_from(block, j, compressed \o FusedInc(val))
           [] inst.k = "Shift" ->
                LET j == RunEnd(block, i + 1, "Shift")
                    off == RunSum(block, i, j)
                IN  compress_from(block, j, compressed \o FusedShift(off))
           [] inst.k = "Block" ->
                compress_from(block, i + 1,
                    Append(compressed, Block(compress_block(inst.body), inst.st)))
           [] OTHER -> compress_from(block, i + 1, Append(compressed, inst))

compress_block(block) == compress_from(block, 1, <<>>)

compress(p) == compress_block(p)

(***************************************************************************)
(* fold_simple_loops                                                       *)
(***************************************************************************)
RECURSIVE gcd(_, _)
gcd(a, b) == IF b # 0 THEN gcd(b, a % b) ELSE a

\* The rewrite of a block whose folded body is `inner`.
FoldSimple(inner, stability) ==
    IF Len(inner) = 1
    THEN CASE inner[1].k = "Inc" /\ gcd(inner[1].a, U8) = 1 -> Reset
           [] inner[1].k = "Shift" -> Seek(inner[1].a)
           [] OTHER -> Block(inner, stability)
    ELSE Block(inner, stability)

RECURSIVE fold_block(_)
RECURSIVE fold_block_from(_, _, _)
fold_block_from(block, i, acc) ==
    IF i > Len(block) THEN acc
    ELSE LET inst == block[i] IN
         IF inst.k = "Block"
         THEN fold_block_from(block, i + 1,
                  Append(acc, FoldSimple(fold_block(inst.body), inst.st)))
         ELSE fold_block_from(block, i + 1, Append(acc, inst))

fold_block(block) == fold_block_from(block, 1, <<>>)

fold_simple_loops(p) == fold_block(p)

(***************************************************************************)
(* fold_mul_loops                                                          *)
(***************************************************************************)
\* .all(|ins| matches!(ins, Inc(..) | Shift(..)))
AllIncShift(body) == \A i \in 1..Len(body) : body[i].k \in {"Inc", "Shift"}

\* changes: BTreeMap<i32, u8>, a function from the offsets inserted so far.
MapGet(m, key) == IF key \in DOMAIN m THEN m[key] ELSE 0
MapPut(m, key, val) == [x \in (DOMAIN m) \cup {key} |-> IF x = key THEN val ELSE m[x]]

\* The symbolic walk of the body: Inc adds to changes[ptr], Shift moves ptr.
RECURSIVE MulChanges(_, _, _, _)
MulChanges(body, i, ptr, changes) ==
    IF i > Len(body) THEN changes
    ELSE IF body[i].k = "Inc"
         THEN MulChanges(body, i + 1, ptr,
                  MapPut(changes, ptr, (MapGet(changes, ptr) + body[i].a) % U8))
         ELSE MulChanges(body, i + 1, ptr + body[i].a, changes)

\* changes.into_iter().filter(offset != 0 && weight != 0): ascending offsets.
RECURSIVE MulTargets(_, _)
MulTargets(changes, keys) ==
    IF keys = {} THEN <<>>
    ELSE LET k == CHOOSE x \in keys : \A y \in keys : x <= y
         IN  (IF k # 0 /\ changes[k] # 0 THEN <<Mul(k, changes[k])>> ELSE <<>>)
             \o MulTargets(changes, keys \ {k})

\* What the loop over a Block pushes to `folded`, given its folded body.
FoldMul(folded_inner, stable) ==
    IF stable /\ AllIncShift(folded_inner)
    THEN LET changes == MulChanges(folded_inner, 1, 0, (0 :> 0))
         IN  IF changes[0] = U8_MAX
             THEN MulTargets(changes, DOMAIN changes) \o <<Reset>>
             ELSE <<Block(folded_inner, stable)>>
    ELSE <<Block(folded_inner, stable)>>

RECURSIVE fold_mul_loops(_)
RECURSIVE fold_mul_from(_, _, _)
fold_mul_from(p, i, folded) ==
    IF i > Len(p) THEN folded
    ELSE LET inst == p[i] IN
         IF inst.k = "Block"
         THEN fold_mul_from(p, i + 1, folded \o FoldMul(fold_mul_loops(inst.body), inst.st))
         ELSE fold_mul_from(p, i + 1, Append(folded, inst))

fold_mul_loops(p) == fold_mul_from(p, 1, <<>>)

(***************************************************************************)
(* fold_skip_loops                                                         *)
(***************************************************************************)
\* The scan of a folded body: ptr, inc_detected, inc_amount, inc_offset, valid.
RECURSIVE SkipScan(_, _, _)
SkipScan(body, i, s) ==
    IF i > Len(body) THEN s
    ELSE CASE body[i].k = "Shift" ->
                SkipScan(body, i + 1, [s EXCEPT !.ptr = @ + body[i].a])
           [] body[i].k = "Inc" /\ ~s.inc_detected ->
                SkipScan(body, i + 1, [s EXCEPT !.inc_detected = TRUE,
                                                !.inc_amount = body[i].a,
                                                !.inc_offset = s.ptr])
           [] OTHER -> [s EXCEPT !.valid = FALSE]

\* (i16::MIN as i32..i16::MAX as i32).contains(&inc_offset): a half-open range.
SkipOffsetFits(inc_offset) == I16_MIN <= inc_offset /\ inc_offset < I16_MAX

\* A variant that takes the Inc as optional: no inc_detected in the test.
FoldSkipOptionalInc(folded_inner, flag) ==
    LET s == SkipScan(folded_inner, 1,
                 [ptr |-> 0, inc_detected |-> FALSE, inc_amount |-> 0,
                  inc_offset |-> 0, valid |-> TRUE])
    IN  IF s.valid /\ SkipOffsetFits(s.inc_offset)
        THEN Skip(s.ptr, s.inc_amount, AsI16(s.inc_offset))
        ELSE Block(folded_inner, flag)

FoldSkip(folded_inner, flag) ==
    LET s == SkipScan(folded_inner, 1,
                 [ptr |-> 0, inc_detected |-> FALSE, inc_amount |-> 0,
                  inc_offset |-> 0, valid |-> TRUE])
    IN  IF s.valid /\ s.inc_detected /\ SkipOffsetFits(s.inc_offset)
        THEN Skip(s.ptr, s.inc_amount, AsI16(s.inc_offset))
        ELSE Block(folded_inner, flag)

RECURSIVE fold_skip_loops(_)
RECURSIVE fold_skip_from(_, _, _)
fold_skip_from(p, i, folded) ==
    IF i > Len(p) THEN folded
    ELSE LET inst == p[i] IN
         IF inst.k = "Block"
         THEN fold_skip_from(p, i + 1,
                  Append(folded, FoldSkip(fold_skip_loops(inst.body), inst.st)))
         ELSE fold_skip_from(p, i + 1, Append(folded, inst))

fold_skip_loops(p) == fold_skip_from(p, 1, <<>>)

(***************************************************************************)
(* remove_dead_writes                                                      *)
(***************************************************************************)
Reverse(s) == [i \in 1..Len(s) |-> s[Len(s) + 1 - i]]

\* The Output arm: targets.remove(&ptr), the cell is observed.
ForgetObserved(targets, ptr) == targets

ObservedTargets(targets, ptr) == targets \ {ptr}

\* A variant of the Mul arm that forgets that the Mul reads its own cell.
MulReadIgnored(targets, ptr) == targets

\* The Mul arm: targets.remove(&ptr), the cell the Mul stands on is read.
MulReadTargets(targets, ptr) == targets \ {ptr}

RECURSIVE remove_block(_, _)
\* The stable branch: the walk over prog.into_iter().rev(), from index i down.
RECURSIVE remove_stable_from(_, _, _, _, _)
remove_stable_from(p, i, targets, ptr, removed) ==
    IF i = 0 THEN Reverse(removed)
    ELSE LET inst == p[i] IN
         CASE inst.k = "Shift" ->
                remove_stable_from(p, i - 1, targets, ptr - inst.a, Append(removed, inst))
           [] inst.k = "Reset" ->
                IF ptr \notin targets
                THEN remove_stable_from(p, i - 1, targets \cup {ptr}, ptr, Append(removed, inst))
                ELSE remove_stable_from(p, i - 1, targets, ptr, removed)
           [] inst.k = "Input" ->
                remove_stable_from(p, i - 1, targets \cup {ptr}, ptr, Append(removed, inst))
           [] inst.k = "Output" ->
                remove_stable_from(p, i - 1, ObservedTargets(targets, ptr), ptr,
                                   Append(removed, inst))
           [] inst.k = "Mul" ->
                LET target == ptr + inst.a
                    kept == MulReadTargets(targets, ptr)
                IN  IF target \notin kept
                    THEN remove_stable_from(p, i - 1, kept, ptr, Append(removed, inst))
                    ELSE remove_stable_from(p, i - 1, kept, ptr, removed)
           [] inst.k = "Inc" ->
                IF ptr \notin targets
                THEN remove_stable_from(p, i - 1, targets, ptr, Append(removed, inst))
                ELSE remove_stable_from(p, i - 1, targets, ptr, removed)
           [] inst.k \in {"Seek", "Skip"} ->
                remove_stable_from(p, i - 1, {}, ptr, Append(removed, inst))
           [] OTHER -> \* Block
                remove_stable_from(p, i - 1, {}, ptr,
                    Append(removed, Block(remove_block(inst.body, inst.st), inst.st)))

\* The unstable branch: only recurse into nested blocks.
RECURSIVE remove_unstable_from(_, _, _)
remove_unstable_from(p, i, acc) ==
    IF i > Len(p) THEN acc
    ELSE LET inst == p[i] IN
         IF inst.k = "Block"
         THEN remove_unstable_from(p, i + 1,
                  Append(acc, Block(remove_block(inst.body, inst.st), inst.st)))
         ELSE remove_unstable_from(p, i + 1, Append(acc, inst))

remove_block(p, stable) ==
    IF ~stable THEN remove_unstable_from(p, 1, <<>>)
    ELSE remove_stable_from(p, Len(p), {}, 0, <<>>)

remove_dead_writes(p) == remove_block(p, FALSE)

(***************************************************************************)
(* move_repeating_resets                                                   *)
(***************************************************************************)
\* The node standing for a reached unreachable!() (a panic of the pass).
Unreachable == Node("unreachable", 0, 0, 0, <<>>, FALSE)

RECURSIVE HasUnreachable(_)
HasUnreachable(p) ==
    \E i \in 1..Len(p) : p[i].k = "unreachable" \/ HasUnreachable(p[i].body)

\* .all(|ins| !matches!(ins, Block(..)))
NoBlock(body) == \A i \in 1..Len(body) : body[i].k # "Block"

\* The forward scan: offset 0, and every offset an Output or a Mul stands on.
RECURSIVE Unremovable(_, _, _, _)
Unremovable(body, i, ptr, unremovable) ==
    IF i > Len(body) THEN unremovable
    ELSE CASE body[i].k = "Shift" -> Unremovable(body, i + 1, ptr + body[i].a, unremovable)
           [] body[i].k \in {"Output", "Mul"} ->
                Unremovable(body, i + 1, ptr, unremovable \cup {ptr})
           [] OTHER -> Unremovable(body, i + 1, ptr, unremovable)

\* The backward walk, from index i down: s holds ptr, unremovable, seq (pushed
\* in reverse), removed and whether unreachable!() was hit.
RECURSIVE MoveScan(_, _, _)
MoveScan(body, i, s) ==
    IF i = 0 THEN s
    ELSE LET ins == body[i] IN
         CASE ins.k = "Shift" ->
                MoveScan(body, i - 1, [s EXCEPT !.ptr = @ - ins.a, !.seq = Append(@, ins)])
           [] ins.k = "Reset" ->
                IF s.ptr \notin s.unremovable
                THEN MoveScan(body, i - 1, [s EXCEPT !.removed = Append(@, s.ptr)])
                ELSE MoveScan(body, i - 1, [s EXCEPT !.seq = Append(@, ins)])
           [] ins.k = "Inc" ->
                MoveScan(body, i - 1, [s EXCEPT !.unremovable = @ \cup {s.ptr},
                                                !.seq = Append(@, ins)])
           [] ins.k = "Mul" ->
                MoveScan(body, i - 1, [s EXCEPT !.unremovable = @ \cup {s.ptr + ins.a},
                                                !.seq = Append(@, ins)])
           [] ins.k \in {"Output", "Input"} ->
                MoveScan(body, i - 1, [s EXCEPT !.seq = Append(@, ins)])
           [] OTHER -> [s EXCEPT !.panic = TRUE]

\* A variant that does not shift back after a hoisted Reset.
RECURSIVE MovedSetsNoReturn(_, _)
MovedSetsNoReturn(removed, i) ==
    IF i > Len(removed) THEN <<>>
    ELSE <<Shift(removed[i]), Reset>> \o MovedSetsNoReturn(removed, i + 1)

\* moved_sets: Shift(o), Reset, Shift(-o) for each removed offset, in order.
RECURSIVE MovedSets(_, _)
MovedSets(removed, i) ==
    IF i > Len(removed) THEN <<>>
    ELSE <<Shift(removed[i]), Reset, Shift(-removed[i])>> \o MovedSets(removed, i + 1)

\* What the loop pushes to `moved` for a Block whose moved body is moved_block.
MoveBlock(moved_block, flag) ==
    IF flag /\ NoBlock(moved_block)
    THEN LET s == MoveScan(moved_block, Len(moved_block),
                      [ptr |-> 0,
                       unremovable |-> Unremovable(moved_block, 1, 0, {0}),
                       seq |-> <<>>, removed |-> <<>>, panic |-> FALSE])
             seq == Reverse(s.seq)
         IN  IF s.panic THEN Unreachable
             ELSE IF s.removed = <<>> THEN Block(seq, flag)
             ELSE Block(<<Block(seq, flag)>> \o MovedSets(s.removed, 1), TRUE)
    ELSE Block(moved_block, flag)

RECURSIVE move_repeating_resets(_)
RECURSIVE move_from(_, _, _)
move_from(p, i, moved) ==
    IF i > Len(p) THEN moved
    ELSE LET inst == p[i] IN
         IF inst.k = "Block"
         THEN move_from(p, i + 1,
                  Append(moved, MoveBlock(move_repeating_resets(inst.body), inst.st)))
         ELSE move_from(p, i + 1, Append(moved, inst))

move_repeating_resets(p) == move_from(p, 1, <<>>)

(***************************************************************************)
(* flatten                                                                 *)
(***************************************************************************)
\* pick_inc / pick_shift on the peekable iterator at position i of seq:
\* the value returned and the position afterwards.
pick_inc(seq, i) ==
    IF i <= Len(seq) /\ seq[i].k = "Inc"
    THEN [val |-> seq[i].a, next |-> i + 1]
    ELSE [val |-> 0, next |-> i]

\* A variant without the range check: every Shift is consumed and cast.
pick_shift_unchecked(seq, i) ==
    IF i <= Len(seq) /\ seq[i].k = "Shift"
    THEN [val |-> AsI16(seq[i].a), next |-> i + 1]
    ELSE [val |-> 0, next |-> i]

pick_shift(seq, i) ==
    IF i <= Len(seq) /\ seq[i].k = "Shift"
       /\ I16_MIN <= seq[i].a /\ seq[i].a <= I16_MAX
    THEN [val |-> AsI16(seq[i].a), next |-> i + 1]
    ELSE [val |-> 0, next |-> i]

\* The common tail `let inc = pick_inc(iter); let delta = pick_shift(iter);`
\* followed by the push of Inst { cmd, arg, inc, delta }.
FuseIncShift(seq, i, cmd, arg) ==
    LET inc == pick_inc(seq, i)
        delta == pick_shift(seq, inc.next)
    IN  [inst |-> Inst(cmd, arg, inc.val, delta.val), next |-> delta.next]

PeekIs(seq, i, k) == i <= Len(seq) /\ seq[i].k = k

RECURSIVE flatten_block(_, _, _)
flatten_block(seq, i, flat) ==
    IF i > Len(seq) THEN flat
    ELSE LET inst == seq[i]
             j == i + 1
         IN
         CASE inst.k = "Inc" ->
                LET delta == pick_shift(seq, j)
                IN  flatten_block(seq, delta.next,
                        Append(flat, Inst("ShiftInc", 0, inst.a, delta.val)))
           [] inst.k = "Shift" ->
                LET f == CASE PeekIs(seq, j, "Reset") -> FuseIncShift(seq, j + 1, "Set", inst.a)
                           [] PeekIs(seq, j, "Output") -> FuseIncShift(seq, j + 1, "Output", inst.a)
                           [] PeekIs(seq, j, "Input") -> FuseIncShift(seq, j + 1, "Input", inst.a)
                           [] OTHER -> FuseIncShift(seq, j, "ShiftInc", inst.a)
                IN  flatten_block(seq, f.next, Append(flat, f.inst))
           [] inst.k = "Output" ->
                LET f == FuseIncShift(seq, j, "Output", 0)
                IN  flatten_block(seq, f.next, Append(flat, f.inst))
           [] inst.k = "Input" ->
                LET f == FuseIncShift(seq, j, "Input", 0)
                IN  flatten_block(seq, f.next, Append(flat, f.inst))
           [] inst.k = "Reset" ->
                LET f == FuseIncShift(seq, j, "Set", 0)
                IN  flatten_block(seq, f.next, Append(flat, f.inst))
           [] inst.k = "Mul" ->
                IF PeekIs(seq, j, "Reset")
                THEN LET delta == pick_shift(seq, j + 1)
                     IN  flatten_block(seq, delta.next,
                             Append(flat, Inst("Mulzero", inst.a, inst.b, delta.val)))
                ELSE flatten_block(seq, j, Append(flat, Inst("Mul", inst.a, inst.b, 0)))
           [] inst.k = "Seek" ->
                LET delta == pick_shift(seq, j)
                    inc == pick_inc(seq, delta.next)
                IN  flatten_block(seq, inc.next,
                        Append(flat, Inst("Seek", inst.a, inc.val, delta.val)))
           [] inst.k = "Skip" ->
                flatten_block(seq, j, Append(flat, Inst("Skip", inst.a, inst.b, inst.c)))
           [] OTHER -> \* Block
                LET inc == pick_inc(inst.body, 1)
                    delta == pick_shift(inst.body, inc.next)
                    flat_block == flatten_block(inst.body, delta.next, <<>>)
                IN  flatten_block(seq, j,
                        (Append(flat, Inst("Open", 0, inc.val, delta.val)) \o flat_block)
                        \o <<Inst("Close", 0, inc.val, delta.val)>>)

\* A variant that links the Open only and leaves the Close's arg at 0.
LinkOpenOnly(flat, open, idx) == [flat EXCEPT ![open + 1].arg = idx]

\* flat[open].arg = idx as i32; flat[idx].arg = open as i32;
LinkPair(flat, open, idx) == [flat EXCEPT ![open + 1].arg = idx, ![idx + 1].arg = open]

\* The linking scan over idx in 0..flat.len(): stack is the Vec of open
\* indices (top last); panic is stack.pop().unwrap() on an empty stack.
RECURSIVE LinkJumps(_, _, _)
LinkJumps(flat, idx, stack) ==
    IF idx >= Len(flat) THEN [flat |-> flat, stack |-> stack, panic |-> FALSE]
    ELSE CASE flat[idx + 1].cmd = "Open" -> LinkJumps(flat, idx + 1, Append(stack, idx))
           [] flat[idx + 1].cmd = "Close" ->
                IF stack = <<>> THEN [flat |-> flat, stack |-> stack, panic |-> TRUE]
                ELSE LET open == stack[Len(stack)]
                     IN  LinkJumps(LinkPair(flat, open, idx),
                                   idx + 1, SubSeq(stack, 1, Len(stack) - 1))
           [] OTHER -> LinkJumps(flat, idx + 1, stack)

FlattenLinked(p) == LinkJumps(flatten_block(p, 1, <<>>), 0, <<>>)

flatten(p) == FlattenLinked(p).flat

(***************************************************************************)
(* run_with_state: the dispatch loop.  A machine state is the record       *)
(* [data, dp, ip, output, in_idx, panic]; data[dp] of the source is        *)
(* data[dp + 1] here.  dp is kept as a mathematical integer: a usize that  *)
(* wrapped below zero is a negative dp, and indexing with it panics.       *)
(***************************************************************************)
Machine == [data |-> data, dp |-> dp, ip |-> ip, output |-> output,
            in_idx |-> in_idx, panic |-> FALSE]

InTape(m, pos) == 0 <= pos /\ pos < Len(m.data)
Cell(m, pos) == m.data[pos + 1]
IndexPanic(m) == [m EXCEPT !.panic = TRUE]

\* data[pos] += v (wrapping), data[pos] = v
AddCell(m, pos, v) == [m EXCEPT !.data[pos + 1] = (@ + v) % U8]
SetCell(m, pos, v) == [m EXCEPT !.data[pos + 1] = v]

ShiftIncStep(i, m) ==
    LET p == m.dp + i.arg IN
    IF ~InTape(m, p) THEN IndexPanic(m)
    ELSE [AddCell(m, p, i.inc) EXCEPT !.dp = p + i.delta, !.ip = @ + 1]

OutputStep(i, m) ==
    LET p == m.dp + i.arg IN
    IF ~InTape(m, p) THEN IndexPanic(m)
    ELSE [AddCell([m EXCEPT !.output = Append(@, Cell(m, p))], p, i.inc)
            EXCEPT !.dp = p + i.delta, !.ip = @ + 1]

\* A variant with the other usual convention: end of input reads as 255.
InputReadEofMax(buf, idx) ==
    IF idx < Len(buf) THEN [byte |-> buf[idx + 1], in_idx |-> idx + 1]
    ELSE [byte |-> U8_MAX, in_idx |-> idx]

\* The byte an Input stores before the fused increment, and the new in_idx.
InputRead(buf, idx) ==
    IF idx < Len(buf) THEN [byte |-> buf[idx + 1], in_idx |-> idx + 1]
    ELSE [byte |-> 0, in_idx |-> idx]

InputStep(i, m, buf) ==
    LET p == m.dp + i.arg
        r == InputRead(buf, m.in_idx)
    IN  IF ~InTape(m, p) THEN IndexPanic(m)
        ELSE [AddCell(SetCell(m, p, r.byte), p, i.inc)
                EXCEPT !.in_idx = r.in_idx, !.dp = p + i.delta, !.ip = @ + 1]

\* Seek and Skip hold a `while data[dp] != 0` loop: one step is one test of
\* the loop condition, followed by one iteration or by the exit.
SeekStep(i, m) ==
    IF ~InTape(m, m.dp) THEN IndexPanic(m)
    ELSE IF Cell(m, m.dp) # 0 THEN [m EXCEPT !.dp = @ + i.arg]
    ELSE LET p == m.dp + i.delta IN
         IF ~InTape(m, p) THEN IndexPanic(m)
         ELSE [AddCell(m, p, i.inc) EXCEPT !.dp = p, !.ip = @ + 1]

SkipStep(i, m) ==
    IF ~InTape(m, m.dp) THEN IndexPanic(m)
    ELSE IF Cell(m, m.dp) # 0
    THEN LET pos == m.dp + i.delta IN
         IF ~InTape(m, pos) THEN IndexPanic(m)
         ELSE [AddCell(m, pos, i.inc) EXCEPT !.dp = @ + i.arg]
    ELSE [m EXCEPT !.ip = @ + 1]

\* A variant that leaves out the fused shift after the store.
SetStepNoDelta(i, m) ==
    LET p == m.dp + i.arg IN
    IF ~InTape(m, p) THEN IndexPanic(m)
    ELSE [SetCell(m, p, i.inc) EXCEPT !.dp = p, !.ip = @ + 1]

SetStep(i, m) ==
    LET p == m.dp + i.arg IN
    IF ~InTape(m, p) THEN IndexPanic(m)
    ELSE [SetCell(m, p, i.inc) EXCEPT !.dp = p + i.delta, !.ip = @ + 1]

MulStep(i, m) ==
    IF ~InTape(m, m.dp) THEN IndexPanic(m)
    ELSE IF Cell(m, m.dp) # 0
    THEN LET pos == m.dp + i.arg IN
         IF ~InTape(m, pos) THEN IndexPanic(m)
         ELSE [AddCell(m, pos, Cell(m, m.dp) * i.inc) EXCEPT !.ip = @ + 1]
    ELSE [m EXCEPT !.ip = @ + 1]

\* A variant that adds the cell itself, without the weight.
MulzeroStepUnscaled(i, m) ==
    IF ~InTape(m, m.dp) THEN IndexPanic(m)
    ELSE IF Cell(m, m.dp) # 0
    THEN LET pos == m.dp + i.arg IN
         IF ~InTape(m, pos) THEN IndexPanic(m)
         ELSE [SetCell(AddCell(m, pos, Cell(m, m.dp)), m.dp, 0)
                 EXCEPT !.dp = @ + i.delta, !.ip = @ + 1]
    ELSE [m EXCEPT !.dp = @ + i.delta, !.ip = @ + 1]

MulzeroStep(i, m) ==
    IF ~InTape(m, m.dp) THEN IndexPanic(m)
    ELSE IF Cell(m, m.dp) # 0
    THEN LET pos == m.dp + i.arg IN
         IF ~InTape(m, pos) THEN IndexPanic(m)
         ELSE [SetCell(AddCell(m, pos, Cell(m, m.dp) * i.inc), m.dp, 0)
                 EXCEPT !.dp = @ + i.delta, !.ip = @ + 1]
    ELSE [m EXCEPT !.dp = @ + i.delta, !.ip = @ + 1]

OpenStep(i, m) ==
    IF ~InTape(m, m.dp) THEN IndexPanic(m)
    ELSE IF Cell(m, m.dp) = 0 THEN [m EXCEPT !.ip = i.arg + 1]
    ELSE [AddCell(m, m.dp, i.inc) EXCEPT !.dp = @ + i.delta, !.ip = @ + 1]

\* A variant that applies the fused inc and delta on the exit edge too.
CloseStepEager(i, m) ==
    IF ~InTape(m, m.dp) THEN IndexPanic(m)
    ELSE IF Cell(m, m.dp) # 0
    THEN [AddCell(m, m.dp, i.inc) EXCEPT !.dp = @ + i.delta, !.ip = i.arg + 1]
    ELSE [AddCell(m, m.dp, i.inc) EXCEPT !.dp = @ + i.delta, !.ip = @ + 1]

CloseStep(i, m) ==
    IF ~InTape(m, m.dp) THEN IndexPanic(m)
    ELSE IF Cell(m, m.dp) # 0
    THEN [AddCell(m, m.dp, i.inc) EXCEPT !.dp = @ + i.delta, !.ip = i.arg + 1]
    ELSE [m EXCEPT !.ip = @ + 1]

(***************************************************************************)
(* The reference interpreter of the equivalence property: Brainfuck run    *)
(* directly on the source text, 8-bit wrapping cells, EOF reads 0, a       *)
(* zero-initialised tape.  Its state is [ip, dp, data, output, in_idx, st, *)
(* steps] with ip a 1-based index into the source and steps the number of  *)
(* steps taken; st becomes "oob" as soon as the pointer leaves the tape,   *)
(* and is "off" where the reference is not run.                            *)
(***************************************************************************)
ZeroTape(n) == [i \in 1..n |-> 0]

RefInit(n) == [ip |-> 1, dp |-> 0, data |-> ZeroTape(n), output |-> <<>>,
               in_idx |-> 0, st |-> "run", steps |-> 0]

\* The index of the "]" matching the "[" before position i (depth d open).
RECURSIVE MatchClose(_, _, _)
MatchClose(s, i, d) ==
    IF s[i] = "]" THEN (IF d = 0 THEN i ELSE MatchClose(s, i + 1, d - 1))
    ELSE IF s[i] = "[" THEN MatchClose(s, i + 1, d + 1)
    ELSE MatchClose(s, i + 1, d)

\* The index of the "[" matching the "]" after position i.
RECURSIVE MatchOpen(_, _, _)
MatchOpen(s, i, d) ==
    IF s[i] = "[" THEN (IF d = 0 THEN i ELSE MatchOpen(s, i - 1, d - 1))
    ELSE IF s[i] = "]" THEN MatchOpen(s, i - 1, d + 1)
    ELSE MatchOpen(s, i - 1, d)

RefMove(r, n) ==
    IF r.dp + n < 0 \/ r.dp + n >= Len(r.data) THEN [r EXCEPT !.st = "oob"]
    ELSE [r EXCEPT !.dp = @ + n, !.ip = @ + 1]

RefStep(s, r, buf) ==
    IF r.ip > Len(s) THEN [r EXCEPT !.st = "halt"]
    ELSE LET c == s[r.ip]
             cell == r.data[r.dp + 1]
         IN
         CASE c = "+" -> [r EXCEPT !.data[r.dp + 1] = (@ + 1) % U8, !.ip = @ + 1]
           [] c = "-" -> [r EXCEPT !.data[r.dp + 1] = (@ + U8_MAX) % U8, !.ip = @ + 1]
           [] c = ">" -> RefMove(r, 1)
           [] c = "<" -> RefMove(r, -1)
           [] c = "." -> [r EXCEPT !.output = Append(@, cell), !.ip = @ + 1]
           [] c = "," ->
                IF r.in_idx < Len(buf)
                THEN [r EXCEPT !.data[r.dp + 1] = buf[r.in_idx + 1],
                               !.in_idx = @ + 1, !.ip = @ + 1]
                ELSE [r EXCEPT !.data[r.dp + 1] = 0, !.ip = @ + 1]
           [] c = "[" ->
                IF cell = 0 THEN [r EXCEPT !.ip = MatchClose(s, r.ip + 1, 0) + 1]
                ELSE [r EXCEPT !.ip = @ + 1]
           [] c = "]" ->
                IF cell # 0 THEN [r EXCEPT !.ip = MatchOpen(s, r.ip - 1, 0) + 1]
                ELSE [r EXCEPT !.ip = @ + 1]
           [] OTHER -> [r EXCEPT !.ip = @ + 1]

(***************************************************************************)
(* compile: the fixed sequence of calls.                                   *)
(***************************************************************************)
Pipeline ==
    << "parse",
       "compress", "fold_simple_loops", "fold_mul_loops",
       "remove_dead_writes", "remove_dead_writes", "move_repeating_resets",
       "compress", "fold_simple_loops", "fold_mul_loops",
       "remove_dead_writes", "remove_dead_writes", "move_repeating_resets",
       "compress", "fold_simple_loops", "fold_mul_loops", "fold_skip_loops",
       "flatten" >>

NextCall == IF pass < Len(Pipeline) THEN Pipeline[pass + 1] ELSE "none"

\* prog = <name>(prog) for a pass over the tree.
PassResult(name, t) ==
    CASE name = "compress" -> compress(t)
      [] name = "fold_simple_loops" -> fold_simple_loops(t)
      [] name = "fold_mul_loops" -> fold_mul_loops(t)
      [] name = "remove_dead_writes" -> remove_dead_writes(t)
      [] name = "move_repeating_resets" -> move_repeating_resets(t)
      [] name = "fold_skip_loops" -> fold_skip_loops(t)

\* The tree compile holds after the first n calls of its sequence, for a
\* source that parse accepts.
RECURSIVE TreeAfter(_, _)
TreeAfter(s, n) ==
    IF n = 1 THEN parse(s).prog ELSE PassResult(Pipeline[n], TreeAfter(s, n - 1))

\* compile as one function: the tree after the last pass, flattened.
compile(s) == flatten(TreeAfter(s, Len(Pipeline) - 1))

(***************************************************************************)
(* Bounds of the model and the inputs drawn by the initial states          *)
(***************************************************************************)
TapeLen == 4
MaxOut == 6
MaxFrags == 2
MaxRefSteps == 300
MaxSteps == 1500

\* Source texts as sequences of characters.
Scenarios ==
    { <<"+", "+", ">", "+", "+", "+", "<", "[", "-", ">", "+", "<", "]">>,
      <<"+", "+", "+", "[", ">", "+", "+", "+", "+", "+", "<", "-", "]", ">", ".">>,
      <<">", ",", "[", ".", ",", "]">>,
      <<"+", "+", "[", ">", "+", "+", "[", "-", "]", "<", "-", "]">>,
      <<"+", "[", ">", ">", "]">>,
      <<"+", "[", ">", "+", ">", "]">>,
      <<"+", "+", "[", "-", ">", "+", ">", "+", "+", "<", "<", "]", ">", ">", ".">>,
      <<">", "+", "[", "-", "<", "+", ">", "]", "<", ".">>,
      <<",", "[", ">", "+", "<", "-", "]", ">", ".">>,
      <<"+", "[", ">", ",", "[", "-", "]", "<", "-", "]", ">", ".">>,
      <<"+", "[", "+", ".", "[", "-", "]", "]">>,
      <<"]">>,
      <<"[">>,
      <<"<">> }

\* Pieces of loop bodies, loop prefixes and suffixes.
Frags ==
    { <<">">>,
      <<"<">>,
      <<"+">>,
      <<"-">>,
      <<".">>,
      <<",">>,
      <<"[", "-", "]">>,
      <<"[", "-", ">", "+", "<", "]">>,
      <<">", "[", "-", "]", "<">>,
      <<"[", "-", "<", "+", ">", "]">> }

Pres == { <<"+">>, <<">", "+", ">", "+", "<">> }

Posts == { <<>>, <<"<", ".", ">", ".", ">", ".">> }

RECURSIVE Bodies(_)
Bodies(n) ==
    IF n = 0 THEN {<<>>}
    ELSE Bodies(n - 1) \cup {f \o b : f \in Frags, b \in Bodies(n - 1)}

Sources ==
    Scenarios \cup
    {p \o <<"[">> \o b \o <<"]">> \o q : p \in Pres, b \in Bodies(MaxFrags), q \in Posts}

\* "hello", and a buffer holding a zero byte.
Inputs == { <<>>, <<104, 101, 108, 108, 111>>, <<2, 0, 1>> }


(***************************************************************************)
(* Actions of compile                                                      *)
(***************************************************************************)
RunVars == <<data, dp, ip, output, in_idx, steps>>
CallerVars == <<code, input, length>>

\* parse(&code); a parse error is a panic of compile carrying the message.
Parse ==
    /\ stage = "src" /\ NextCall = "parse"
    /\ LET r == parse(code) IN
       IF r.err # ""
       THEN stage' = "error" /\ err' = r.err /\ UNCHANGED <<tree, pass>>
       ELSE stage' = "tree" /\ tree' = r.prog /\ pass' = pass + 1 /\ err' = err
    /\ UNCHANGED <<CallerVars, RunVars, aux, prog, offset, ref>>

\* prog = <pass>(prog) at the position `pass` of compile's sequence.
ApplyPass(name, t) ==
    /\ stage = "tree" /\ NextCall = name
    /\ tree' = t /\ pass' = pass + 1
    /\ UNCHANGED <<CallerVars, RunVars, aux, stage, err, prog, offset, ref>>

Compress == ApplyPass("compress", compress(tree))

FoldSimpleLoops == ApplyPass("fold_simple_loops", fold_simple_loops(tree))

FoldMulLoops == ApplyPass("fold_mul_loops", fold_mul_loops(tree))

RemoveDeadWrites == ApplyPass("remove_dead_writes", remove_dead_writes(tree))

FoldSkipLoops == ApplyPass("fold_skip_loops", fold_skip_loops(tree))

MoveRepeatingResets ==
    /\ stage = "tree" /\ NextCall = "move_repeating_resets"
    /\ LET t == move_repeating_resets(tree) IN
       IF HasUnreachable(t)
       THEN stage' = "panic" /\ err' = "unreachable" /\ UNCHANGED <<tree, pass>>
       ELSE tree' = t /\ pass' = pass + 1 /\ UNCHANGED <<stage, err>>
    /\ UNCHANGED <<CallerVars, RunVars, aux, prog, offset, ref>>

Flatten ==
    /\ stage = "tree" /\ NextCall = "flatten"
    /\ LET f == FlattenLinked(tree) IN
       IF f.panic
       THEN stage' = "panic" /\ err' = "unwrap on None" /\ UNCHANGED <<prog, pass>>
       ELSE stage' = "flat" /\ prog' = f.flat /\ pass' = pass + 1 /\ err' = err
    /\ UNCHANGED <<CallerVars, RunVars, aux, tree, offset, ref>>

(***************************************************************************)
(* Actions of run_with_state                                               *)
(***************************************************************************)
\* let mut data = vec![0u8; length]; dp = 0; ip = 0; output; in_idx = 0
\* (the reference run on the same source and input has ended by then)
RunStart ==
    /\ stage = "flat" /\ ref.st # "run"
    /\ stage' = "run"
    /\ data' = ZeroTape(length) /\ dp' = 0 /\ ip' = 0 /\ output' = <<>> /\ in_idx' = 0
    /\ steps' = 0
    /\ UNCHANGED <<CallerVars, tree, aux, err, prog, pass, offset, ref>>

\* while ip < prog.len(); the history counter is capped to keep runs that
\* never return finite.
Running == stage = "run" /\ ip < Len(prog) /\ steps < MaxSteps
Cur == prog[ip + 1]

\* The state after one pass through the loop body, or the index panic.
Commit(m) ==
    /\ IF m.panic
       THEN stage' = "panic" /\ err' = "index out of bounds" /\ UNCHANGED RunVars
       ELSE /\ data' = m.data /\ dp' = m.dp /\ ip' = m.ip
            /\ output' = m.output /\ in_idx' = m.in_idx
            /\ steps' = steps + 1
            /\ UNCHANGED <<stage, err>>
    /\ UNCHANGED <<CallerVars, tree, aux, prog, pass, offset, ref>>

ExecShiftInc == Running /\ Cur.cmd = "ShiftInc" /\ Commit(ShiftIncStep(Cur, Machine))

ExecOutput ==
    Running /\ Cur.cmd = "Output" /\ Len(output) < MaxOut /\ Commit(OutputStep(Cur, Machine))

ExecInput == Running /\ Cur.cmd = "Input" /\ Commit(InputStep(Cur, Machine, input))

ExecSeek == Running /\ Cur.cmd = "Seek" /\ Commit(SeekStep(Cur, Machine))

ExecSkip == Running /\ Cur.cmd = "Skip" /\ Commit(SkipStep(Cur, Machine))

ExecSet == Running /\ Cur.cmd = "Set" /\ Commit(SetStep(Cur, Machine))

ExecMul == Running /\ Cur.cmd = "Mul" /\ Commit(MulStep(Cur, Machine))

ExecMulzero == Running /\ Cur.cmd = "Mulzero" /\ Commit(MulzeroStep(Cur, Machine))

ExecOpen == Running /\ Cur.cmd = "Open" /\ Commit(OpenStep(Cur, Machine))

ExecClose == Running /\ Cur.cmd = "Close" /\ Commit(CloseStep(Cur, Machine))

\* The loop condition ip < prog.len() fails: (output, data, dp) is returned.
Halt ==
    /\ stage = "run" /\ ip >= Len(prog)
    /\ stage' = "halt"
    /\ UNCHANGED <<CallerVars, RunVars, tree, aux, err, prog, pass, offset, ref>>

\* One step of the reference interpreter, run before run_with_state starts.
RefExec ==
    /\ stage = "flat" /\ ref.st = "run"
    /\ Len(ref.output) < MaxOut /\ ref.steps < MaxRefSteps
    /\ ref' = [RefStep(code, ref, input) EXCEPT !.steps = @ + 1]
    /\ UNCHANGED <<CallerVars, RunVars, tree, aux, stage, err, prog, pass, offset>>

Interpret ==
    \/ ExecShiftInc \/ ExecOutput \/ ExecInput \/ ExecSeek \/ ExecSkip
    \/ ExecSet \/ ExecMul \/ ExecMulzero \/ ExecOpen \/ ExecClose

Passes ==
    \/ Compress \/ FoldSimpleLoops \/ FoldMulLoops \/ RemoveDeadWrites
    \/ MoveRepeatingResets \/ FoldSkipLoops

NoMachine ==
    /\ prog = <<>> /\ data = <<>> /\ dp = 0 /\ ip = 0 /\ output = <<>> /\ in_idx = 0
    /\ steps = 0

(***************************************************************************)
(* Spec: compile(code) followed by run_with_state(prog, length, input),    *)
(* then the reference interpreter on the same source and input.            *)
(***************************************************************************)
Init ==
    /\ code \in Sources
    /\ input \in Inputs
    /\ length = TapeLen
    /\ tree = <<>> /\ aux = <<>> /\ stage = "src" /\ err = "" /\ pass = 0 /\ offset = 0
    /\ NoMachine
    /\ ref = RefInit(length)

Next == Parse \/ Passes \/ Flatten \/ RunStart \/ Interpret \/ Halt \/ RefExec

Spec == Init /\ [][Next]_vars

\* The dispatch loop and the calls of compile are sequential code: a step
\* that can be taken is taken.
FairSpec == Spec /\ WF_vars(Next)

MaxSrcLen == 6

SrcAlphabet == {"[", "]", ">", "<", "+"}

RECURSIVE Strings(_)
Strings(n) ==
    IF n = 0 THEN {<<>>}
    ELSE Strings(n - 1) \cup {Append(s, c) : s \in Strings(n - 1), c \in SrcAlphabet}

InitCompile ==
    /\ code \in Strings(MaxSrcLen)
    /\ input = <<>>
    /\ length = TapeLen
    /\ tree = <<>> /\ aux = <<>> /\ stage = "src" /\ err = "" /\ pass = 0 /\ offset = 0
    /\ NoMachine
    /\ ref = RefInit(length)

NextCompile == Parse \/ Passes \/ Flatten

SpecCompile == InitCompile /\ [][NextCompile]_vars

\* The number of occurrences of c among the first n characters of s.
CountUpTo(s, c, n) == Cardinality({i \in 1..n : s[i] = c})

\* No prefix holds more ']' than '['.
PrefixesOk(s) == \A n \in 0..Len(s) : CountUpTo(s, "[", n) >= CountUpTo(s, "]", n)

Balanced(s) == PrefixesOk(s) /\ CountUpTo(s, "[", Len(s)) = CountUpTo(s, "]", Len(s))

\* The guards of the actions of compile: a call of its sequence is due.
CallDue ==
    \/ stage = "src" /\ NextCall = "parse"
    \/ stage = "tree" /\ NextCall \in {Pipeline[n] : n \in 2..Len(Pipeline)}

\* C2: compile never panics in a pass; on a balanced source it fails nowhere
\* and always has its next call to make until flatten has returned; on an
\* unbalanced source it stops in parse with "Unmatched ]" when some prefix
\* holds more ']' than '[', and with "Unmatched [" otherwise.
C2_CompileIffBalanced ==
    /\ stage \in {"src", "tree", "flat", "error"}
    /\ Balanced(code) =>
          /\ stage # "error" /\ err = ""
          /\ stage # "flat" => CallDue
    /\ stage \in {"tree", "flat"} => Balanced(code)
    /\ stage = "error" =>
          /\ ~Balanced(code)
          /\ err = IF PrefixesOk(code) THEN "Unmatched [" ELSE "Unmatched ]"

\* A source holding a matched pair and then an unclosed '[' was refused.
C2_Witness ==
    /\ stage = "error" /\ err = "Unmatched ["
    /\ \E i \in 1..Len(code) : code[i] = "]"

\* The sum of the Shift nodes lying directly in body.
RECURSIVE ShiftSum(_, _)
ShiftSum(body, i) ==
    IF i > Len(body) THEN 0
    ELSE (IF body[i].k = "Shift" THEN body[i].a ELSE 0) + ShiftSum(body, i + 1)

\* Every Block lying directly in body is flagged stable.
ChildrenStable(body) == \A i \in 1..Len(body) : body[i].k = "Block" => body[i].st

\* Every Block of p, at any depth, is flagged by exactly that rule.
RECURSIVE StabilityExact(_)
StabilityExact(p) ==
    \A i \in 1..Len(p) :
        p[i].k = "Block" =>
            /\ p[i].st <=> (ShiftSum(p[i].body, 1) = 0 /\ ChildrenStable(p[i].body))
            /\ StabilityExact(p[i].body)

\* C3: in the tree parse returns, every Block at any depth is flagged stable
\* iff the Shift nodes directly in its body sum to zero and every Block
\* directly in its body is flagged stable.
C3_StableIffBalancedShifts == (stage = "tree" /\ pass = 1) => StabilityExact(tree)

\* parse returned a block whose own shifts sum to zero and which is unstable
\* only because of a nested block.
C3_Witness ==
    /\ stage = "tree" /\ pass = 1
    /\ \E i \in 1..Len(tree) :
          /\ tree[i].k = "Block" /\ ~tree[i].st
          /\ ShiftSum(tree[i].body, 1) = 0
          /\ \E j \in 1..Len(tree[i].body) : tree[i].body[j].k = "Block"

(***************************************************************************)
(* Trees drawn directly: every sequence of nodes with n nodes in all,      *)
(* blocks flagged by parse's rule.                                         *)
(***************************************************************************)
MaxNodes == 4

Flagged(body) == Block(body, ShiftSum(body, 1) = 0 /\ ChildrenStable(body))

RECURSIVE Forests(_, _)
Forests(n, leaves) ==
    IF n = 0 THEN {<<>>}
    ELSE {<<l>> \o f : l \in leaves, f \in Forests(n - 1, leaves)}
         \cup UNION { {<<Flagged(b)>> \o f : b \in Forests(k, leaves),
                                            f \in Forests(n - 1 - k, leaves)}
                      : k \in 0..(n - 1) }

ForestsUpTo(n, leaves) == UNION {Forests(k, leaves) : k \in 0..n}

(***************************************************************************)
(* SpecFlatten: flatten on every tree of up to MaxNodes nodes.             *)
(***************************************************************************)
FlatLeaves == {Inc(1), Shift(1), Output, Input, Reset, Mul(1, 1), Seek(1), Skip(1, 1, 0)}

InitFlatten ==
    /\ tree \in ForestsUpTo(MaxNodes, FlatLeaves)
    /\ stage = "tree" /\ pass = Len(Pipeline) - 1
    /\ code = <<>> /\ input = <<>> /\ length = TapeLen
    /\ aux = <<>> /\ err = "" /\ offset = 0
    /\ NoMachine
    /\ ref = RefInit(length)

SpecFlatten == InitFlatten /\ [][Flatten]_vars

\* prog[i] of the source, for a 0-based index i.
At(i) == prog[i + 1]

Opens == {i \in 0..(Len(prog) - 1) : At(i).cmd = "Open"}
Closes == {i \in 0..(Len(prog) - 1) : At(i).cmd = "Close"}

\* C4: flatten never pops an empty stack, and in the program it returns every
\* Open at i holds arg = j with j > i, prog[j] a Close and prog[j].arg = i;
\* every Close is the target of exactly one Open; and the pairs are properly
\* nested (an Open between a pair closes before that pair does).
C4_JumpsLinked ==
    /\ stage # "panic"
    /\ stage = "flat" =>
          /\ \A i \in Opens :
                LET j == At(i).arg IN
                /\ i < j /\ j < Len(prog)
                /\ At(j).cmd = "Close"
                /\ At(j).arg = i
          /\ \A j \in Closes : Cardinality({i \in Opens : At(i).arg = j}) = 1
          /\ \A i \in Opens : \A k \in Opens :
                (i < k /\ k < At(i).arg) => At(k).arg < At(i).arg

\* A flat program holding a loop nested in a loop that does not start it.
C4_Witness ==
    /\ stage = "flat"
    /\ \E i \in Opens : \E k \in Opens : i > 0 /\ i + 1 < k /\ k < At(i).arg

(***************************************************************************)
(* SpecCompress: compress applied to every tree of up to MaxNodes nodes,   *)
(* and applied again to what it returned.                                  *)
(***************************************************************************)
CompressLeaves == {Inc(1), Inc(U8_MAX), Shift(1), Shift(-1), Output, Input, Reset}

InitCompress ==
    /\ tree \in ForestsUpTo(MaxNodes, CompressLeaves)
    /\ stage = "tree" /\ pass = 1
    /\ code = <<>> /\ input = <<>> /\ length = TapeLen
    /\ aux = <<>> /\ err = "" /\ offset = 0
    /\ NoMachine
    /\ ref = RefInit(length)

\* compress called on the tree compress returned; aux keeps its argument.
CompressAgain ==
    /\ stage = "tree" /\ pass = 2
    /\ aux' = tree /\ tree' = compress(tree) /\ stage' = "again"
    /\ UNCHANGED <<CallerVars, RunVars, err, prog, pass, offset, ref>>

NextCompress == Compress \/ CompressAgain

SpecCompress == InitCompress /\ [][NextCompress]_vars

\* C5: compress is idempotent: applied to a tree it returned, it returns
\* that tree unchanged.
C5_CompressIdempotent == stage = "again" => tree = aux


(***************************************************************************)
(* SpecMul: a stable loop of Inc and Shift nodes whose entry cell changes  *)
(* by 255 per iteration is run by the dispatch loop as flatten emits it;   *)
(* then fold_mul_loops rewrites it and the result is run on the same tape. *)
(* aux keeps the starting tape and, afterwards, what the loop left.        *)
(***************************************************************************)
MaxBodyLen == 4

\* "[-]", "[->+<]", "[->+>++<<]", "[<+++>-]", "[+>-<--]", "[>+<->-<]"
MulLoops ==
    { <<Inc(U8_MAX)>>,
      <<Inc(U8_MAX), Shift(1), Inc(1), Shift(-1)>>,
      <<Inc(U8_MAX), Shift(1), Inc(1), Shift(1), Inc(2), Shift(-2)>>,
      <<Shift(-1), Inc(3), Shift(1), Inc(U8_MAX)>>,
      <<Inc(1), Shift(1), Inc(U8_MAX), Shift(-1), Inc(254)>>,
      <<Shift(1), Inc(1), Shift(-1), Inc(U8_MAX), Shift(1), Inc(U8_MAX), Shift(-1)>> }

\* The condition under which fold_mul_loops rewrites a block with this body.
MulFoldable(body) ==
    /\ AllIncShift(body) /\ ShiftSum(body, 1) = 0
    /\ MulChanges(body, 1, 0, (0 :> 0))[0] = U8_MAX

\* Every such body of up to MaxBodyLen nodes.
SmallMulLoops ==
    {b \in ForestsUpTo(MaxBodyLen, {Inc(1), Inc(U8_MAX), Shift(1), Shift(-1)}) :
        MulFoldable(b)}

\* The tape: 2 * MaxBodyLen + 1 cells, the entry cell in the middle holding
\* v and every other cell holding fill.
MulOrigin == MaxBodyLen
MulTape(v, fill) ==
    [i \in 1..(2 * MaxBodyLen + 1) |-> IF i = MulOrigin + 1 THEN v ELSE fill]

MulFills == {0, 250}
EdgeValues == {0, 1, 2, U8_MAX}

MulCases ==
    {<<b, v, f>> : b \in MulLoops, v \in 0..U8_MAX, f \in MulFills}
    \cup {<<b, v, f>> : b \in SmallMulLoops, v \in EdgeValues, f \in MulFills}

InitMul ==
    \E c \in MulCases :
        /\ tree = <<Flagged(c[1])>>
        /\ prog = flatten(tree)
        /\ data = MulTape(c[2], c[3]) /\ dp = MulOrigin /\ ip = 0
        /\ output = <<>> /\ in_idx = 0 /\ steps = 0
        /\ aux = [phase |-> "loop", init |-> data, data |-> <<>>, dp |-> 0]
        /\ stage = "run" /\ pass = 3
        /\ code = <<>> /\ input = <<>> /\ length = Len(data)
        /\ err = "" /\ offset = 0
        /\ ref = RefInit(length)

\* prog = fold_mul_loops(prog), flattened and run from the same tape.
RunFolded ==
    /\ stage = "halt" /\ aux.phase = "loop" /\ NextCall = "fold_mul_loops"
    /\ tree' = fold_mul_loops(tree) /\ pass' = pass + 1
    /\ prog' = flatten(tree')
    /\ aux' = [aux EXCEPT !.phase = "folded", !.data = data, !.dp = dp]
    /\ data' = aux.init /\ dp' = MulOrigin /\ ip' = 0 /\ steps' = 0
    /\ stage' = "run"
    /\ UNCHANGED <<CallerVars, output, in_idx, err, offset, ref>>

NextMul ==
    \/ ExecShiftInc \/ ExecSet \/ ExecMul \/ ExecMulzero \/ ExecOpen \/ ExecClose
    \/ Halt \/ RunFolded

SpecMul == InitMul /\ [][NextMul]_vars

\* Mul(off, w) nodes with nonzero off and w, ascending in off, then Reset.
MulSequence(t) ==
    /\ Len(t) >= 1 /\ t[Len(t)].k = "Reset"
    /\ \A i \in 1..(Len(t) - 1) :
          /\ t[i].k = "Mul" /\ t[i].a # 0 /\ t[i].b # 0
          /\ i > 1 => t[i - 1].a < t[i].a

\* C6: for a stable loop of Inc and Shift nodes with net change 255 on the
\* entry cell, fold_mul_loops emits Mul nodes in ascending offset order and
\* then Reset; neither the loop nor that sequence panics or runs on past
\* MaxSteps; and when the sequence has run, the tape and dp are those the
\* loop left from the same starting tape.
C6_MulFoldEquivalent ==
    /\ stage # "panic"
    /\ stage = "run" => (Running \/ ip >= Len(prog))
    /\ aux.phase = "folded" =>
          /\ MulSequence(tree)
          /\ \A i \in 1..Len(prog) : prog[i].cmd \in {"Mul", "Mulzero", "Set"}
          /\ stage = "halt" => (data = aux.data /\ dp = aux.dp)

\* Two targets, the entry cell starting at 255 and the targets at 250: the
\* folded sequence (a Mul and a Mulzero) has run and wrapped both targets.
C6_Witness ==
    /\ stage = "halt" /\ aux.phase = "folded"
    /\ aux.init[MulOrigin + 1] = U8_MAX /\ aux.init[MulOrigin + 2] = 250
    /\ \E i \in 1..Len(prog) : prog[i].cmd = "Mul"
    /\ \E i \in 1..Len(prog) : prog[i].cmd = "Mulzero"
    /\ data = aux.data /\ data # aux.init


(***************************************************************************)
(* SpecTerm: run_with_state on three compiled programs, on every input of  *)
(* Inputs and every tape of 2..TapeLen cells.  The dispatch loop is        *)
(* sequential code: a step that can be taken is taken.                     *)
(***************************************************************************)
EchoSource == <<">", ",", "[", ".", ",", "]">>
GuardSource == <<"+", "+", "[", ">", "+", "+", "[", "-", "]", "<", "-", "]">>
ReadIncSource == <<",", "+", ".", ",", "+", ".", ",", "+", ".", ",", "+", ".">>

Hello == <<104, 101, 108, 108, 111>>

InitTerm ==
    /\ code \in {EchoSource, GuardSource, ReadIncSource}
    /\ input \in Inputs
    /\ length \in 2..TapeLen
    /\ tree = TreeAfter(code, Len(Pipeline) - 1) /\ prog = compile(code)
    /\ stage = "flat" /\ pass = Len(Pipeline)
    /\ aux = <<>> /\ err = "" /\ offset = 0
    /\ data = <<>> /\ dp = 0 /\ ip = 0 /\ output = <<>> /\ in_idx = 0 /\ steps = 0
    /\ ref = [RefInit(length) EXCEPT !.st = "off"]

NextTerm ==
    \/ RunStart
    \/ ExecShiftInc \/ ExecOutput \/ ExecInput \/ ExecSet \/ ExecOpen \/ ExecClose
    \/ Halt

SpecTerm == InitTerm /\ [][NextTerm]_vars /\ WF_vars(NextTerm)

\* A pass through the dispatch loop that did not panic.
LoopPass == stage = "run" /\ stage' = "run" /\ steps' = steps + 1

\* What a pass through the loop does to the input buffer.
InputEffect ==
    LoopPass =>
        IF Cur.cmd = "Input"
        THEN IF in_idx < Len(input)
             THEN /\ in_idx' = in_idx + 1
                  /\ data'[dp + Cur.arg + 1] = (input[in_idx + 1] + Cur.inc) % U8
             ELSE /\ in_idx' = in_idx
                  /\ data'[dp + Cur.arg + 1] = Cur.inc
        ELSE in_idx' = in_idx

EchoCase == code = EchoSource /\ input = Hello

\* C7: an executed Input takes the next unread byte of the buffer, in order,
\* and stores it plus the fused inc (wrapping); with the buffer exhausted it
\* stores 0 plus the fused inc and consumes nothing; no other instruction
\* moves in_idx. And ">,[.,]" on "hello" returns, having output "hello".
C7_InputConsumption ==
    /\ [][InputEffect]_vars
    /\ [](EchoCase /\ stage = "halt" => output = Hello)
    /\ (EchoCase /\ stage = "flat") ~> (stage = "halt")

\* The echo program has returned: five bytes consumed and printed, and the
\* sixth Input, at the end of the buffer, stored the 0 that ended the loop.
C7_Witness ==
    /\ EchoCase /\ stage = "halt"
    /\ in_idx = Len(Hello) /\ output = Hello /\ data[dp + 1] = 0

GuardCase == code = GuardSource

\* An Open directly followed by another Open: a loop that starts with a loop.
NestedGuards == \E i \in 1..(Len(prog) - 1) : prog[i].cmd = "Open" /\ prog[i + 1].cmd = "Open"

\* C8: compile("++[>++[-]<-]") is a program with nested guard loops; run on
\* a zero tape it returns, and when it has returned cell 0 holds 0 and dp is 0.
C8_GuardLoopTerminates ==
    /\ [](GuardCase /\ stage \in {"flat", "run", "halt"} => NestedGuards)
    /\ [](GuardCase /\ stage = "halt" => (data[1] = 0 /\ dp = 0))
    /\ (GuardCase /\ stage = "flat") ~> (stage = "halt")

\* The run has returned, with the inner cell reset by the hoisted Reset.
C8_Witness ==
    /\ GuardCase /\ stage = "halt" /\ NestedGuards
    /\ data[1] = 0 /\ data[2] = 0 /\ dp = 0 /\ steps > 0

(***************************************************************************)
(* The loop instructions of the dispatch loop (checked under Spec)         *)
(***************************************************************************)
\* What a pass through the loop at a Close, or at an Open on a zero cell, does.
LoopEdgeEffect ==
    LoopPass =>
        /\ Cur.cmd = "Close" =>
              IF data[dp + 1] # 0
              THEN /\ ip' = Cur.arg + 1 /\ At(Cur.arg).cmd = "Open"
                   /\ data' = [data EXCEPT ![dp + 1] = (@ + Cur.inc) % U8]
                   /\ dp' = dp + Cur.delta
              ELSE data' = data /\ dp' = dp /\ ip' = ip + 1
        /\ (Cur.cmd = "Open" /\ data[dp + 1] = 0) =>
              /\ data' = data /\ dp' = dp
              /\ ip' = Cur.arg + 1
              /\ At(Cur.arg).cmd = "Close" /\ At(Cur.arg).arg = ip

\* C10: a Close on a nonzero cell adds its inc to the cell and its delta to
\* dp and continues after its Open; a Close on a zero cell changes neither
\* the tape nor dp and continues with the next instruction; an Open on a
\* zero cell changes neither and continues after its matching Close.
C10_CloseAppliesOnReentryOnly == [][LoopEdgeEffect]_vars

\* The run stands right after a Close that carries an inc or a delta, on a
\* zero cell, having printed inside the loop: the loop was left there.
C10_Witness ==
    /\ stage = "run" /\ ip > 0 /\ ip <= Len(prog)
    /\ prog[ip].cmd = "Close" /\ (prog[ip].inc # 0 \/ prog[ip].delta # 0)
    /\ 0 <= dp /\ dp < Len(data) /\ data[dp + 1] = 0
    /\ output # <<>>


(***************************************************************************)
(* run: the dispatch loop on the standard streams.  `output` holds the     *)
(* bytes written to stdout and `input` the bytes stdin delivers.  Its arms *)
(* are those of run_with_state, except that Output prints the cell with    *)
(* print!("{}", data[dp] as char): the char U+0000..U+00FF, which stdout   *)
(* receives in UTF-8.                                                      *)
(***************************************************************************)
\* The bytes of `v as char` formatted by "{}": one byte below 128, two above.
AsCharUtf8(v) ==
    IF v < 128 THEN <<v>> ELSE <<192 + (v \div 64), 128 + (v % 64)>>

\* The Output arm of run (and, on `ptr`, of unsafe_run).
PrintStep(i, m) ==
    LET p == m.dp + i.arg IN
    IF ~InTape(m, p) THEN IndexPanic(m)
    ELSE [AddCell([m EXCEPT !.output = @ \o AsCharUtf8(Cell(m, p))], p, i.inc)
            EXCEPT !.dp = p + i.delta, !.ip = @ + 1]

\* One pass through the loop of run.
RunStep(i, m, buf) ==
    CASE i.cmd = "ShiftInc" -> ShiftIncStep(i, m)
      [] i.cmd = "Output" -> PrintStep(i, m)
      [] i.cmd = "Input" -> InputStep(i, m, buf)
      [] i.cmd = "Seek" -> SeekStep(i, m)
      [] i.cmd = "Skip" -> SkipStep(i, m)
      [] i.cmd = "Set" -> SetStep(i, m)
      [] i.cmd = "Mul" -> MulStep(i, m)
      [] i.cmd = "Mulzero" -> MulzeroStep(i, m)
      [] i.cmd = "Open" -> OpenStep(i, m)
      [] OTHER -> CloseStep(i, m)

(***************************************************************************)
(* unsafe_run, as main calls it: offset = get_offset(&prog), then          *)
(* unsafe_run(prog, length, offset).  dp is the index of `ptr` in the      *)
(* buffer `data`.  Nothing is bounds-checked: forming a pointer outside    *)
(* the buffer (past its one-past-the-end position) or reading or writing   *)
(* through one is undefined behaviour, which ends here in one of two ways, *)
(* chosen freely: the process faults, or it goes on over memory that is    *)
(* not the tape ("corrupt"), after which nothing is known.                 *)
(***************************************************************************)
Max(a, b) == IF a >= b THEN a ELSE b

\* The loop of get_offset over prog, from index i, with the maximum so far.
RECURSIVE OffsetFrom(_, _, _)
OffsetFrom(p, i, off) ==
    IF i > Len(p) THEN off
    ELSE OffsetFrom(p, i + 1,
             IF p[i].cmd \in {"Mul", "Mulzero"} THEN Max(off, -p[i].arg) ELSE off)

get_offset(p) == OffsetFrom(p, 1, 0)

\* Mul and Mulzero of unsafe_run: the target is read and written whatever
\* the current cell holds.
UnsafeMulStep(i, m) ==
    LET pos == m.dp + i.arg IN
    IF ~InTape(m, pos) \/ ~InTape(m, m.dp) THEN IndexPanic(m)
    ELSE [AddCell(m, pos, Cell(m, m.dp) * i.inc) EXCEPT !.ip = @ + 1]

UnsafeMulzeroStep(i, m) ==
    LET pos == m.dp + i.arg IN
    IF ~InTape(m, pos) \/ ~InTape(m, m.dp) THEN IndexPanic(m)
    ELSE [SetCell(AddCell(m, pos, Cell(m, m.dp) * i.inc), m.dp, 0)
            EXCEPT !.dp = @ + i.delta, !.ip = @ + 1]

\* One pass through the loop of unsafe_run; the other arms read and write
\* the cells run_with_state's arms do, in the same order.  `panic` here
\* says that a cell outside the buffer was read or written.
UnsafeStep(i, m, buf) ==
    CASE i.cmd = "Output" -> PrintStep(i, m)
      [] i.cmd = "Input" -> InputStep(i, m, buf)
      [] i.cmd = "ShiftInc" -> ShiftIncStep(i, m)
      [] i.cmd = "Seek" -> SeekStep(i, m)
      [] i.cmd = "Skip" -> SkipStep(i, m)
      [] i.cmd = "Set" -> SetStep(i, m)
      [] i.cmd = "Mulzero" -> UnsafeMulzeroStep(i, m)
      [] i.cmd = "Mul" -> UnsafeMulStep(i, m)
      [] i.cmd = "Open" -> OpenStep(i, m)
      [] OTHER -> CloseStep(i, m)

\* A pointer that may be formed: inside the buffer or one past its end.
PointerOk(pos, buffer) == 0 <= pos /\ pos <= Len(buffer)

UndefinedOutcomes == {"fault", "corrupt"}

UnsafeSources ==
    { <<"[", "-", "<", "+", ">", "]">>,
      <<">", "+", "[", "-", "<", "+", ">", "]", "<", ".">>,
      <<">", ">", "+", "[", "-", "<", "<", "+", ">", ">", "]">>,
      <<"+", "[", "-", ">", "+", "<", "]", ">", ".">>,
      EchoSource,
      GuardSource }

InitUnsafe ==
    /\ code \in UnsafeSources
    /\ input \in Inputs
    /\ length \in 1..TapeLen
    /\ tree = TreeAfter(code, Len(Pipeline) - 1) /\ prog = compile(code)
    /\ stage = "flat" /\ pass = Len(Pipeline)
    /\ aux = <<>> /\ err = "" /\ offset = 0
    /\ data = <<>> /\ dp = 0 /\ ip = 0 /\ output = <<>> /\ in_idx = 0 /\ steps = 0
    /\ ref = [RefInit(length) EXCEPT !.st = "off"]

\* let offset = get_offset(&prog);
GetOffset ==
    /\ stage = "flat"
    /\ offset' = get_offset(prog) /\ stage' = "offset"
    /\ UNCHANGED <<CallerVars, RunVars, tree, aux, err, prog, pass, ref>>

\* let mut data = vec![0u8; length]; let mut ptr = data.as_mut_ptr().offset(offset);
UnsafeStart ==
    /\ stage = "offset"
    /\ data' = ZeroTape(length) /\ dp' = offset /\ ip' = 0
    /\ output' = <<>> /\ in_idx' = 0 /\ steps' = 0
    /\ IF PointerOk(offset, data')
       THEN stage' = "unsafe" /\ err' = err
       ELSE stage' \in UndefinedOutcomes /\ err' = "undefined behaviour"
    /\ UNCHANGED <<CallerVars, tree, aux, prog, pass, offset, ref>>

UnsafeExec ==
    /\ stage = "unsafe" /\ ip < Len(prog)
    /\ steps < MaxSteps /\ Len(output) < MaxOut
    /\ LET m == UnsafeStep(Cur, Machine, input) IN
       IF m.panic \/ ~PointerOk(m.dp, data)
       THEN /\ stage' \in UndefinedOutcomes /\ err' = "undefined behaviour"
            /\ UNCHANGED RunVars
       ELSE /\ data' = m.data /\ dp' = m.dp /\ ip' = m.ip
            /\ output' = m.output /\ in_idx' = m.in_idx
            /\ steps' = steps + 1
            /\ UNCHANGED <<stage, err>>
    /\ UNCHANGED <<CallerVars, tree, aux, prog, pass, offset, ref>>

\* The loop condition ip < prog.len() fails: unsafe_run returns.
UnsafeReturn ==
    /\ stage = "unsafe" /\ ip >= Len(prog)
    /\ stage' = "halt"
    /\ UNCHANGED <<CallerVars, RunVars, tree, aux, err, prog, pass, offset, ref>>

NextUnsafe == GetOffset \/ UnsafeStart \/ UnsafeExec \/ UnsafeReturn

SpecUnsafe == InitUnsafe /\ [][NextUnsafe]_vars

\* C9: once unsafe_run has allocated its tape for length L with bias b =
\* get_offset(prog), the buffer holds L + b cells, and each of the L logical
\* cells 0..L-1, counted from the biased origin, lies inside it.
C9_PaddedAllocation ==
    stage \in {"unsafe", "halt"} \cup UndefinedOutcomes =>
        /\ Len(data) = length + offset
        /\ \A c \in 0..(length - 1) : InTape(Machine, offset + c)

(***************************************************************************)
(* SpecOutput: programs that print, compiled and then run by each of the   *)
(* three interpreters: run_with_state, run and (after get_offset)          *)
(* unsafe_run.                                                             *)
(***************************************************************************)
\* "-.+>.<.", ",.+.", ",[.-]", ">.+<.", "+.+."
OutputSources ==
    { <<"-", ".", "+", ">", ".", "<", ".">>,
      <<",", ".", "+", ".">>,
      <<",", "[", ".", "-", "]">>,
      <<">", ".", "+", "<", ".">>,
      <<"+", ".", "+", ".">> }

OutputInputs == { <<>>, <<2, 0, 1>>, <<200, 127>> }

InitOutput ==
    /\ code \in OutputSources
    /\ input \in OutputInputs
    /\ length \in 2..TapeLen
    /\ tree = TreeAfter(code, Len(Pipeline) - 1) /\ prog = compile(code)
    /\ stage = "flat" /\ pass = Len(Pipeline)
    /\ aux = <<>> /\ err = "" /\ offset = 0
    /\ data = <<>> /\ dp = 0 /\ ip = 0 /\ output = <<>> /\ in_idx = 0 /\ steps = 0
    /\ ref = [RefInit(length) EXCEPT !.st = "off"]

\* run(prog, length): let mut data = vec![0u8; length]; dp = 0; ip = 0
StdoutStart ==
    /\ stage = "flat"
    /\ stage' = "stdout"
    /\ data' = ZeroTape(length) /\ dp' = 0 /\ ip' = 0 /\ output' = <<>> /\ in_idx' = 0
    /\ steps' = 0
    /\ UNCHANGED <<CallerVars, tree, aux, err, prog, pass, offset, ref>>

StdoutExec ==
    /\ stage = "stdout" /\ ip < Len(prog)
    /\ steps < MaxSteps /\ Len(output) < MaxOut
    /\ Commit(RunStep(Cur, Machine, input))

\* The loop condition ip < prog.len() fails: run returns.
StdoutReturn ==
    /\ stage = "stdout" /\ ip >= Len(prog)
    /\ stage' = "halt"
    /\ UNCHANGED <<CallerVars, RunVars, tree, aux, err, prog, pass, offset, ref>>

NextOutput ==
    \/ RunStart \/ ExecShiftInc \/ ExecOutput \/ ExecInput \/ ExecOpen \/ ExecClose \/ Halt
    \/ StdoutStart \/ StdoutExec \/ StdoutReturn
    \/ GetOffset \/ UnsafeStart \/ UnsafeExec \/ UnsafeReturn

SpecOutput == InitOutput /\ [][NextOutput]_vars

\* A pass through the dispatch loop of any of the three interpreters.
AnyLoopPass ==
    /\ stage \in {"run", "stdout", "unsafe"} /\ stage' = stage
    /\ steps' = steps + 1

\* Emission, then the fused inc on the same cell, then the fused delta.
OutputOrder ==
    (AnyLoopPass /\ Cur.cmd = "Output") =>
        LET p == dp + Cur.arg IN
        /\ Len(output') > Len(output)
        /\ SubSeq(output', 1, Len(output)) = output
        /\ data' = [data EXCEPT ![p + 1] = (@ + Cur.inc) % U8]
        /\ dp' = p + Cur.delta

\* The one byte emitted is the value of the cell before the inc.
OutputByte ==
    (AnyLoopPass /\ Cur.cmd = "Output") =>
        output' = Append(output, data[dp + Cur.arg + 1])

\* C11: in run, run_with_state and unsafe_run, an Output emits one byte, the
\* value of tape[dp + arg] before the fused inc is added; the inc is added
\* to that cell after the emission, and the delta to dp after the inc.
C11_OutputBeforeIncrement == [][OutputOrder /\ OutputByte]_vars

(***************************************************************************)
(* SpecFuse: flatten on every tree of up to MaxNodes nodes whose Shift     *)
(* nodes stand at and just outside the ends of the i16 range.              *)
(***************************************************************************)
FuseLeaves ==
    { Inc(1), Output, Input, Reset, Mul(1, 1), Seek(1),
      Shift(I16_MAX), Shift(I16_MAX + 1), Shift(I16_MIN), Shift(I16_MIN - 1) }

InitFuse ==
    /\ tree \in ForestsUpTo(MaxNodes, FuseLeaves)
    /\ stage = "tree" /\ pass = Len(Pipeline) - 1
    /\ code = <<>> /\ input = <<>> /\ length = TapeLen
    /\ aux = <<>> /\ err = "" /\ offset = 0
    /\ NoMachine
    /\ ref = RefInit(length)

SpecFuse == InitFuse /\ [][Flatten]_vars

\* The sum of the Shift values of a tree, nested bodies included.
RECURSIVE TreeMove(_)
TreeMove(t) ==
    IF t = <<>> THEN 0
    ELSE (IF t[1].k = "Shift" THEN t[1].a ELSE 0) + TreeMove(t[1].body) + TreeMove(Tail(t))

\* The pointer movement a flat instruction carries for the tree nodes fused
\* into it: the prelude arg of ShiftInc, Output, Input and Set, and the delta
\* (a Close repeats the delta of its Open; the arg of the others is no shift).
InstMove(i) ==
    (IF i.cmd \in {"ShiftInc", "Output", "Input", "Set"} THEN i.arg ELSE 0)
    + (IF i.cmd \in {"Close", "Mul", "Skip"} THEN 0 ELSE i.delta)

RECURSIVE FlatMove(_)
FlatMove(p) == IF p = <<>> THEN 0 ELSE InstMove(p[1]) + FlatMove(Tail(p))

\* The number of Shift(n) nodes of a tree, nested bodies included.
RECURSIVE CountShift(_, _)
CountShift(t, n) ==
    IF t = <<>> THEN 0
    ELSE (IF t[1] = Shift(n) THEN 1 ELSE 0) + CountShift(t[1].body, n)
         + CountShift(Tail(t), n)

\* The instructions of the flat program whose prelude shift is n.
PreludeShifts(n) ==
    {i \in 1..Len(prog) :
        prog[i].cmd \in {"ShiftInc", "Output", "Input", "Set"} /\ prog[i].arg = n}

WideShifts == {I16_MAX + 1, I16_MIN - 1}

\* C12: in the program flatten returns, every delta fits a signed 16-bit
\* value, every Shift(n) of the tree with n outside [-32768, 32767] is an
\* instruction of its own carrying arg = n, and the pointer movements of
\* the args and deltas add up to the sum of the tree's Shift values.
C12_NoTruncatedShift ==
    stage = "flat" =>
        /\ \A i \in 1..Len(prog) : I16_MIN <= prog[i].delta /\ prog[i].delta <= I16_MAX
        /\ \A n \in WideShifts : Cardinality(PreludeShifts(n)) = CountShift(tree, n)
        /\ FlatMove(prog) = TreeMove(tree)

\* Inc(1), Shift(32768), Output, Shift(32767): the first shift is refused by
\* the Inc and heads the Output; the second one is fused as its delta.
C12_Witness ==
    /\ stage = "flat"
    /\ tree = <<Inc(1), Shift(I16_MAX + 1), Output, Shift(I16_MAX)>>
    /\ prog = <<Inst("ShiftInc", 0, 1, 0), Inst("Output", I16_MAX + 1, 0, I16_MAX)>>

(***************************************************************************)
(* SpecSkip: fold_skip_loops on every tree of up to MaxNodes nodes, with   *)
(* Shift nodes that bring the offset of an Inc to the ends of the i16      *)
(* range.  aux keeps the tree the pass was given.                          *)
(***************************************************************************)
SkipLeaves == {Inc(1), Inc(U8_MAX), Shift(1), Shift(-1), Shift(I16_MAX), Shift(I16_MIN), Output}

InitSkip ==
    /\ tree \in ForestsUpTo(MaxNodes, SkipLeaves)
    /\ aux = tree
    /\ stage = "tree" /\ pass = Len(Pipeline) - 2
    /\ code = <<>> /\ input = <<>> /\ length = TapeLen
    /\ err = "" /\ offset = 0
    /\ NoMachine
    /\ ref = RefInit(length)

SpecSkip == InitSkip /\ [][FoldSkipLoops]_vars

\* fold_skip_loops has returned: tree is its result for aux.
SkipDone == stage = "tree" /\ pass = Len(Pipeline) - 1

ShiftsOnly(body) == \A i \in 1..Len(body) : body[i].k = "Shift"

\* The blocks of o with a body of Shift nodes only (the empty body too) are
\* Skip(p, 0, 0) in r, at every depth.
RECURSIVE NoIncFolded(_, _)
NoIncFolded(o, r) ==
    /\ Len(r) = Len(o)
    /\ \A i \in 1..Len(o) :
          o[i].k = "Block" =>
             IF ShiftsOnly(o[i].body)
             THEN r[i] = Skip(ShiftSum(o[i].body, 1), 0, 0)
             ELSE r[i].k = "Block" => NoIncFolded(o[i].body, r[i].body)

\* The blocks of o with a body of Shift nodes only are unchanged in r.
RECURSIVE NoIncKept(_, _)
NoIncKept(o, r) ==
    /\ Len(r) = Len(o)
    /\ \A i \in 1..Len(o) :
          o[i].k = "Block" =>
             IF ShiftsOnly(o[i].body)
             THEN r[i] = o[i]
             ELSE r[i].k = "Block" => NoIncKept(o[i].body, r[i].body)

OneInc(body) ==
    /\ \A i \in 1..Len(body) : body[i].k \in {"Shift", "Inc"}
    /\ Cardinality({i \in 1..Len(body) : body[i].k = "Inc"}) = 1

IncIndex(body) == CHOOSE i \in 1..Len(body) : body[i].k = "Inc"

\* The pointer offset at the Inc: the sum of the shifts before it.
IncOffset(body) == ShiftSum(SubSeq(body, 1, IncIndex(body) - 1), 1)

\* The blocks of o with a body of Shift nodes and one Inc(v) at offset d are
\* Skip(p, v, d) in r when d fits a signed 16-bit value and unchanged
\* otherwise, at every depth.
RECURSIVE OneIncFolded(_, _)
OneIncFolded(o, r) ==
    /\ Len(r) = Len(o)
    /\ \A i \in 1..Len(o) :
          o[i].k = "Block" =>
             IF OneInc(o[i].body)
             THEN LET d == IncOffset(o[i].body) IN
                  IF I16_MIN <= d /\ d <= I16_MAX
                  THEN r[i] = Skip(ShiftSum(o[i].body, 1), o[i].body[IncIndex(o[i].body)].a, d)
                  ELSE r[i] = o[i]
             ELSE r[i].k = "Block" => OneIncFolded(o[i].body, r[i].body)

\* C14: a block whose body is Shift nodes plus exactly one Inc(v) at pointer
\* offset d becomes Skip(p, v, d) for every d in [-32768, 32767], with d
\* stored untruncated, and stays a Block only for d outside that range.
C14_SkipOffsetRange == SkipDone => OneIncFolded(aux, tree)

(***************************************************************************)
(* A tree pass compared by execution: the tree the pass was given and the  *)
(* tree it returned are flattened and run by run_with_state from the same  *)
(* tape, dp and input.  aux is the record                                  *)
(*   [given, phase, tape, origin, data, dp, output, in_idx, steps]         *)
(* with phase "pass" until the first run starts, "given" during the run of *)
(* the given tree and "result" during the run of the returned tree; data,  *)
(* dp, output, in_idx and steps keep what the first run returned.          *)
(***************************************************************************)
MaxLoopSteps == 40

\* One pass through the loop of run_with_state, whatever the instruction.
StateStep(i, m, buf) ==
    CASE i.cmd = "ShiftInc" -> ShiftIncStep(i, m)
      [] i.cmd = "Output" -> OutputStep(i, m)
      [] i.cmd = "Input" -> InputStep(i, m, buf)
      [] i.cmd = "Seek" -> SeekStep(i, m)
      [] i.cmd = "Skip" -> SkipStep(i, m)
      [] i.cmd = "Set" -> SetStep(i, m)
      [] i.cmd = "Mul" -> MulStep(i, m)
      [] i.cmd = "Mulzero" -> MulzeroStep(i, m)
      [] i.cmd = "Open" -> OpenStep(i, m)
      [] OTHER -> CloseStep(i, m)

Compared(t, tape, origin) ==
    [given |-> t, phase |-> "pass", tape |-> tape, origin |-> origin,
     data |-> <<>>, dp |-> 0, output |-> <<>>, in_idx |-> 0, steps |-> 0]

\* The passes through the loop a run is followed for: MaxLoopSteps for the
\* given tree, and for the returned tree twice what the given tree took
\* plus the length of the program.
StepBudget ==
    IF aux.phase = "given" THEN MaxLoopSteps ELSE 2 * aux.steps + Len(prog)

\* run_with_state(flatten(given), ..): started only where the pass changed
\* the tree.
StartGiven ==
    /\ stage = "tree" /\ aux.phase = "pass" /\ tree # aux.given
    /\ prog' = flatten(aux.given)
    /\ data' = aux.tape /\ dp' = aux.origin /\ ip' = 0
    /\ output' = <<>> /\ in_idx' = 0 /\ steps' = 0
    /\ aux' = [aux EXCEPT !.phase = "given"]
    /\ stage' = "run"
    /\ UNCHANGED <<CallerVars, tree, err, pass, offset, ref>>

StateExec ==
    /\ stage = "run" /\ ip < Len(prog)
    /\ steps < StepBudget /\ Len(output) < MaxOut
    /\ Commit(StateStep(Cur, Machine, input))

\* run_with_state(flatten(tree), ..) once the first run has returned.
StartResult ==
    /\ stage = "halt" /\ aux.phase = "given"
    /\ aux' = [aux EXCEPT !.phase = "result", !.data = data, !.dp = dp,
                          !.output = output, !.in_idx = in_idx, !.steps = steps]
    /\ prog' = flatten(tree)
    /\ data' = aux.tape /\ dp' = aux.origin /\ ip' = 0
    /\ output' = <<>> /\ in_idx' = 0 /\ steps' = 0
    /\ stage' = "run"
    /\ UNCHANGED <<CallerVars, tree, err, pass, offset, ref>>

\* The run of the returned tree neither panics nor outlasts its budget, does
\* not print more than the run of the given tree did, and returns with the
\* output, the tape, dp and the input position that run returned with.
SameBehaviour ==
    aux.phase = "result" =>
        /\ stage \in {"run", "halt"}
        /\ (stage = "run" /\ ip < Len(prog)) =>
              /\ steps < StepBudget
              /\ Cur.cmd = "Output" => Len(output) < Len(aux.output)
        /\ stage = "halt" =>
              /\ output = aux.output /\ data = aux.data /\ dp = aux.dp
              /\ in_idx = aux.in_idx

(***************************************************************************)
(* SpecMove: move_repeating_resets on one block flagged stable, with zero  *)
(* net displacement and no nested block, on tapes with the entry cell in   *)
(* the middle.                                                             *)
(***************************************************************************)
MoveLeaves ==
    { Inc(1), Inc(U8_MAX), Shift(1), Shift(-1), Reset, Input, Output,
      Mul(1, 1), Mul(-1, 2) }

\* Bodies of five and six nodes: a Reset before and after an Input on the
\* same cell, after an Inc, two hoisted resets, a Reset left of the entry.
MoveLoops ==
    { <<Shift(1), Reset, Input, Shift(-1), Inc(U8_MAX)>>,
      <<Shift(1), Input, Reset, Shift(-1), Inc(U8_MAX)>>,
      <<Shift(1), Inc(1), Reset, Shift(-1), Inc(U8_MAX)>>,
      <<Shift(1), Reset, Shift(1), Reset, Shift(-2), Inc(U8_MAX)>>,
      <<Shift(-1), Reset, Shift(1), Output, Inc(U8_MAX)>> }

SmallMoveLoops ==
    {b \in ForestsUpTo(MaxBodyLen, MoveLeaves) : NoBlock(b) /\ ShiftSum(b, 1) = 0}

MoveEntries == {0, 1, 2}
MoveFills == {0, 3}
MoveInputs == { <<>>, <<7, 0, 9>> }

InitMove ==
    \E b \in MoveLoops \cup SmallMoveLoops, v \in MoveEntries, f \in MoveFills :
        /\ tree = <<Block(b, TRUE)>>
        /\ aux = Compared(tree, MulTape(v, f), MulOrigin)
        /\ input \in MoveInputs
        /\ stage = "tree" /\ pass = 6
        /\ code = <<>> /\ length = Len(aux.tape)
        /\ err = "" /\ offset = 0
        /\ NoMachine
        /\ ref = [RefInit(length) EXCEPT !.st = "off"]

NextMove == MoveRepeatingResets \/ StartGiven \/ StateExec \/ Halt \/ StartResult

SpecMove == InitMove /\ [][NextMove]_vars

\* C15: move_repeating_resets preserves behaviour on its own: the block it
\* returns for a stable block without nested blocks gives the same output,
\* final tape and final dp as the block it was given, on every starting
\* tape and input.
C15_MovePreservesBehaviour == SameBehaviour

\* The block move_repeating_resets returned is the wrapper: a stable block
\* holding the trimmed loop and then Shift(o), Reset, Shift(-o) triples.
Wrapped ==
    /\ Len(tree) = 1 /\ tree[1].k = "Block" /\ tree[1].st
    /\ Len(tree[1].body) > 1 /\ tree[1].body[1].k = "Block"

HoistedOffsets == {tree[1].body[j].a : j \in {j \in 2..Len(tree[1].body) : j % 3 = 2}}

\* C18: the wrapper is a one-shot guard.  Every hoisted offset is nonzero;
\* with the entry cell 0 on arrival the run returns after the wrapper's Open
\* alone, the tape unchanged; otherwise every arrival at the wrapper's Close
\* finds dp back at the entry cell and that cell 0, so the Close falls
\* through and the wrapper's body, once entered, is not entered again.
C18_WrapperRunsOnce ==
    aux.phase = "result" =>
        /\ Wrapped /\ 0 \notin HoistedOffsets
        /\ prog[1].cmd = "Open" /\ prog[1].arg = Len(prog) - 1
        /\ (stage = "run" /\ ip = Len(prog) - 1) =>
              (dp = aux.origin /\ data[dp + 1] = 0)
        /\ (stage = "run" /\ 0 < ip /\ ip < Len(prog)) => aux.tape[aux.origin + 1] # 0
        /\ (stage = "halt" /\ aux.tape[aux.origin + 1] = 0) =>
              (data = aux.tape /\ dp = aux.origin /\ steps = 1)

\* The wrapper with two hoisted resets was entered on a nonzero cell and
\* left: both reset cells, filled before, are zero, and dp is at the entry.
C18_Witness ==
    /\ aux.phase = "result" /\ stage = "halt"
    /\ Cardinality(HoistedOffsets) = 2
    /\ aux.tape[aux.origin + 1] = 2 /\ aux.tape[aux.origin + 2] = 3
    /\ \A o \in HoistedOffsets : data[aux.origin + o + 1] = 0
    /\ dp = aux.origin /\ data[dp + 1] = 0

(***************************************************************************)
(* SpecDead: remove_dead_writes on every tree of up to MaxNodes nodes and  *)
(* on longer loops, blocks flagged by parse's rule; where the pass changed *)
(* the tree, both trees are run from the same tape and input.              *)
(***************************************************************************)
DeadLeaves ==
    { Inc(1), Inc(U8_MAX), Shift(1), Shift(-1), Reset, Input, Output,
      Mul(1, 1), Seek(1) }

\* A dead Mul; a dead Inc and Mul on one cell; an Inc read by a Mul; an Inc
\* before a nested loop; an Inc before a Skip; a dead Reset under a loop
\* that is not stable.
DeadLoops ==
    { <<Mul(1, 1), Shift(1), Reset, Shift(-1), Reset>>,
      <<Shift(1), Inc(1), Shift(-1), Mul(1, 2), Shift(1), Reset, Shift(-1), Inc(U8_MAX)>>,
      <<Shift(1), Inc(1), Mul(-1, 1), Reset, Shift(-1), Inc(U8_MAX)>>,
      <<Inc(1), Flagged(<<Inc(U8_MAX)>>), Reset>>,
      <<Shift(1), Inc(1), Shift(-1), Skip(0, U8_MAX, 0), Shift(1), Reset, Shift(-1)>>,
      <<Shift(1), Flagged(<<Reset, Inc(1), Reset>>), Shift(1), Reset>> }

DeadTrees ==
    ForestsUpTo(MaxNodes, DeadLeaves) \cup {<<Flagged(b)>> : b \in DeadLoops}

DeadEntries == {0, 1, 2}
DeadFills == {0, 3, U8_MAX}
DeadInputs == { <<>>, <<7, 0, 9>> }

InitDead ==
    \E v \in DeadEntries, f \in DeadFills :
        /\ tree \in DeadTrees
        /\ aux = Compared(tree, MulTape(v, f), MulOrigin)
        /\ input \in DeadInputs
        /\ stage = "tree" /\ pass = 5
        /\ code = <<>> /\ length = Len(aux.tape)
        /\ err = "" /\ offset = 0
        /\ NoMachine
        /\ ref = [RefInit(length) EXCEPT !.st = "off"]

NextDead == RemoveDeadWrites \/ StartGiven \/ StateExec \/ Halt \/ StartResult

SpecDead == InitDead /\ [][NextDead]_vars

\* remove_dead_writes has returned: tree is its result for aux.given.
DeadDone == pass = 6

\* The pointer offset at node i of a body, counted from the body's start.
PtrAt(body, i) == ShiftSum(SubSeq(body, 1, i - 1), 1)

\* The cell node i writes.
WrittenAt(body, i) ==
    IF body[i].k = "Mul" THEN PtrAt(body, i) + body[i].a ELSE PtrAt(body, i)

\* Node i is an Inc, Reset or Mul whose written cell c a later Reset or
\* Input of the body overwrites, with nothing in between that prints c,
\* reads c as a Mul, or is a Seek, Skip or nested Block.
DeadWrite(body, i) ==
    /\ body[i].k \in {"Inc", "Reset", "Mul"}
    /\ \E j \in (i + 1)..Len(body) :
          /\ body[j].k \in {"Reset", "Input"}
          /\ PtrAt(body, j) = WrittenAt(body, i)
          /\ \A k \in (i + 1)..(j - 1) :
                /\ body[k].k \notin {"Seek", "Skip", "Block"}
                /\ ~(body[k].k \in {"Output", "Mul"}
                     /\ PtrAt(body, k) = WrittenAt(body, i))

\* The body with the dead writes of stable-flagged bodies left out and
\* everything else in place, at every depth.
RECURSIVE WithoutDead(_, _, _)
WithoutDead(body, i, stable) ==
    IF i > Len(body) THEN <<>>
    ELSE (IF stable /\ DeadWrite(body, i) THEN <<>>
          ELSE IF body[i].k = "Block"
               THEN <<Block(WithoutDead(body[i].body, 1, body[i].st), body[i].st)>>
               ELSE <<body[i]>>)
         \o WithoutDead(body, i + 1, stable)

\* C16: remove_dead_writes returns the tree it was given without the Inc,
\* Reset and Mul nodes of stable-flagged bodies that a later Reset or Input
\* of the same body overwrites unobserved; every other node, the top level
\* and the bodies flagged unstable keep their nodes in order; and the tree
\* returned gives the output, final tape and final dp of the tree given.
C16_DeadWritesOnly ==
    /\ DeadDone => tree = WithoutDead(aux.given, 1, FALSE)
    /\ SameBehaviour

RECURSIVE HasKind(_, _)
HasKind(t, k) == \E i \in 1..Len(t) : t[i].k = k \/ HasKind(t[i].body, k)

\* A loop whose Mul was dropped has run in both forms and changed the tape.
C16_Witness ==
    /\ aux.phase = "result" /\ stage = "halt"
    /\ HasKind(aux.given, "Mul") /\ ~HasKind(tree, "Mul")
    /\ data = aux.data /\ data # aux.tape /\ steps > 1

(***************************************************************************)
(* SpecStable: compile on the sources of Spec and on every source text of  *)
(* SpecCompile, the tree looked at after each call of compile's sequence.  *)
(***************************************************************************)
InitStable ==
    /\ code \in Sources \cup Strings(MaxSrcLen)
    /\ input = <<>>
    /\ length = TapeLen
    /\ tree = <<>> /\ aux = <<>> /\ stage = "src" /\ err = "" /\ pass = 0 /\ offset = 0
    /\ NoMachine
    /\ ref = RefInit(length)

SpecStable == InitStable /\ [][NextCompile]_vars

\* The number of calls done once fold_skip_loops has returned.
SkipPass == Len(Pipeline) - 1

\* The kinds of the nodes lying directly in body.
Kinds(body) == {body[i].k : i \in 1..Len(body)}

\* Every Block of p flagged stable, at any depth, has Shift nodes directly in
\* its body summing to zero, only stable-flagged Blocks directly in its body,
\* and no node of a kind in `banned` directly in its body.
RECURSIVE StableSound(_, _)
StableSound(p, banned) ==
    \A i \in 1..Len(p) :
        p[i].k = "Block" =>
            /\ p[i].st => /\ ShiftSum(p[i].body, 1) = 0
                          /\ ChildrenStable(p[i].body)
                          /\ Kinds(p[i].body) \cap banned = {}
            /\ StableSound(p[i].body, banned)

\* Every Skip lying directly in a stable-flagged Block of p has ptr = 0: the
\* folded loop ends on the cell it started on.
RECURSIVE SkipsInPlace(_)
SkipsInPlace(p) ==
    \A i \in 1..Len(p) :
        p[i].k = "Block" =>
            /\ p[i].st => \A j \in 1..Len(p[i].body) :
                              p[i].body[j].k = "Skip" => p[i].body[j].a = 0
            /\ SkipsInPlace(p[i].body)

\* Some stable-flagged Block of p, at any depth, holds a node of that kind
\* directly in its body.
RECURSIVE StableHolds(_, _)
StableHolds(p, kind) ==
    \E i \in 1..Len(p) :
        /\ p[i].k = "Block"
        /\ \/ p[i].st /\ kind \in Kinds(p[i].body)
           \/ StableHolds(p[i].body, kind)

\* No call of the sequence reached an unreachable!() arm.
NoUnreachable == ~(stage = "panic" /\ err = "unreachable")

\* C17: after parse and after every later call of compile's sequence, every
\* Block flagged stable has Shift nodes directly in its body summing to
\* zero, only stable-flagged Blocks directly in its body and no Seek or Skip
\* directly in its body; no unreachable!() arm is reached.
C17_StableNoSeekNoSkip ==
    /\ StableSound(tree, {"Seek", "Skip"})
    /\ NoUnreachable

\* C17, amended: the same up to the call before fold_skip_loops; once
\* fold_skip_loops has run, a stable-flagged Block may hold a Skip directly
\* in its body, and every such Skip has ptr = 0.  The shift sum, the nested
\* flags and the absence of Seek hold after every call, and no
\* unreachable!() arm is reached.
C17_StableUntilSkipFold ==
    /\ StableSound(tree, IF pass < SkipPass THEN {"Seek", "Skip"} ELSE {"Seek"})
    /\ SkipsInPlace(tree)
    /\ NoUnreachable

\* fold_skip_loops has run and left a Skip directly in a stable-flagged Block
\* that came through every earlier call of the sequence.
C17_Witness ==
    /\ stage = "tree" /\ pass = SkipPass
    /\ StableHolds(tree, "Skip")


====
